---- MODULE Spec2Model ----
(***************************************************************************)
(* Model of the shorts-writer-agent generation pipeline:                   *)
(*   - validateScript and its four checks        (lib/validator)           *)
(*   - determineRetryAction, RetryStrategy       (lib/retry/retry-strategy)*)
(*   - PromptBuilder, HearingPromptBuilder       (prompt composers)        *)
(*   - ScriptGenerator.generate                  (the bounded retry loop)  *)
(*   - POST /api/generate                        (the route calling it)    *)
(*   - HearingSession                            (the hearing state)       *)
(*                                                                         *)
(* Text is a string of UTF-16 code units, each code unit a token: "x" an   *)
(* ordinary character, "sp" a white-space character, "sun" U+2600 (a BMP   *)
(* code point of EMOJI_REGEX), "hi"/"lo" the surrogates U+D83D/U+DE00      *)
(* (together U+1F600), and the characters of the CTA keywords in romanised *)
(* form.  A string is held run-length encoded: a sequence of runs          *)
(* [c |-> code unit, n |-> repetitions], n >= 1, so that the empty string  *)
(* is <<>>.  A prompt is a sequence of segments.                           *)
(***************************************************************************)
EXTENDS Integers, Sequences, FiniteSets, TLC

VARIABLES
    state,       \* HearingSession.state
    topic,       \* HearingSession.topic
    history,     \* HearingSession.history: the array, of references into heap
    heap,        \* the HearingMessage objects allocated so far
    ctaPurpose,  \* HearingSession.ctaPurpose
    pc,          \* position of the current POST /api/generate call
    request,     \* ScriptGenerationRequest of the current call
    prompt,      \* generate: let prompt
    attempt,     \* generate: let attempt
    result,      \* the GenerationResult the call resolved to
    oracleLog,   \* the oracle calls of the current call: prompt sent, response
    nCalls,      \* number of POST calls handled so far (model bound only)
    args,        \* arguments of a direct call of a retry-strategy function
    ret,         \* what that call returned
    frames,      \* generate calls running side by side: the locals of each
    page         \* app/page.tsx: the state of the Home component

vars == <<state, topic, history, heap, ctaPurpose, pc, request, prompt, attempt,
          result, oracleLog, nCalls, args, ret, frames, page>>

sessionVars == <<state, topic, history, heap, ctaPurpose>>
postVars == <<pc, request, prompt, attempt, result, oracleLog, nCalls>>
generateVars == <<pc, request, prompt, attempt, result, oracleLog, nCalls,
                  frames, page>>
callVars == <<args, ret>>

(***************************************************************************)
(* Bounds of the model.                                                    *)
(***************************************************************************)
MaxCalls == 2      \* POST calls per behaviour
AttemptCap == 3    \* oracle responses delivered to one generate call
MaxErrs == 2       \* length of the error lists given to the retry planner
MaxObjects == 2    \* HearingMessage objects allocated in one behaviour
MaxTurns == 4      \* turns of a transcript given to the dialogue-aware composer
MaxInFlight == 2   \* generate calls running side by side

(***************************************************************************)
(* Text helpers.                                                           *)
(***************************************************************************)
\* the string of n code units c
Run(c, n) == IF n = 0 THEN <<>> ELSE <<[c |-> c, n |-> n]>>
Pad(n) == Run("x", n)
\* the string of the code units chars[1], chars[2], ...
Chars(chars) == [i \in 1..Len(chars) |-> [c |-> chars[i], n |-> 1]]

\* String.prototype.length
Length(s) ==
    LET F[i \in 0..Len(s)] == IF i = 0 THEN 0 ELSE F[i - 1] + s[i].n
    IN F[Len(s)]

\* the code units of s, one by one
Expand(s) ==
    LET F[i \in 0..Len(s)] ==
            IF i = 0 THEN <<>> ELSE F[i - 1] \o [j \in 1..s[i].n |-> s[i].c]
    IN F[Len(s)]

\* Array.prototype.join(''), over an array of strings
JoinText(parts) ==
    LET F[i \in 0..Len(parts)] == IF i = 0 THEN <<>> ELSE F[i - 1] \o parts[i]
    IN F[Len(parts)]

IsWhiteSpace(c) == c = "sp"

\* String.prototype.trim: the leading and the trailing white-space runs go
Trim(s) ==
    LET keep == {i \in 1..Len(s) : ~IsWhiteSpace(s[i].c)}
    IN IF keep = {} THEN <<>>
       ELSE SubSeq(s, CHOOSE i \in keep : \A j \in keep : i <= j,
                      CHOOSE i \in keep : \A j \in keep : j <= i)

\* the white space at the end of s removed, as String.prototype.trim does there
TrimEnd(s) ==
    LET keep == {i \in 1..Len(s) : ~IsWhiteSpace(s[i].c)}
    IN IF keep = {} THEN <<>>
       ELSE SubSeq(s, 1, CHOOSE i \in keep : \A j \in keep : j <= i)

\* String.prototype.includes, kw given by its code units
Includes(s, kw) ==
    LET u == Expand(s)
    IN \E i \in 1..(Len(u) - Len(kw) + 1) : SubSeq(u, i, i + Len(kw) - 1) = kw

CtaPurposes == {"longVideo", "like", "comment"}

RequiredFields == {"hook", "body", "cta"}
OptionalFields == {"context", "proof", "transition"}

\* a property read: undefined when the key is absent
Has(obj, f) == f \in DOMAIN obj

\* JavaScript truthiness of a string-or-undefined property
Truthy(obj, f) == Has(obj, f) /\ obj[f] # <<>>

(***************************************************************************)
(* lib/validator                                                           *)
(***************************************************************************)
MIN_LENGTH == 250
MAX_LENGTH == 400

CTA_KEYWORDS ==
    [longVideo |-> << <<"chou", "jaku">>, <<"hon", "pen">>, <<"fu", "ru">> >>,
     like      |-> << <<"i", "i", "ne">>, <<"kou", "hyou", "ka">>,
                      <<"gu", "tsu", "do">> >>,
     comment   |-> << <<"ko", "me", "n", "to">>, <<"kan", "sou">>,
                      <<"oshi", "e", "te">> >>]

CTA_ERROR_CODES ==
    [longVideo |-> "CTA_MISMATCH_LONG_VIDEO",
     like      |-> "CTA_MISMATCH_LIKE",
     comment   |-> "CTA_MISMATCH_COMMENT"]

\* BMP code points of EMOJI_REGEX among the tokens
BmpEmoji == {"sun"}

\* EMOJI_REGEX.test(text), flag u: the text is read code point by code point,
\* a high surrogate followed by a low surrogate being one code point
EMOJI_REGEX_test(text) ==
    \E i \in 1..Len(text) :
        \/ text[i].c \in BmpEmoji
        \/ text[i].c = "hi" /\ i < Len(text) /\ text[i + 1].c = "lo"

\* a validation error; count is the number interpolated into the message
\* (0 when the message interpolates none)
ValidationError(code, count) == [code |-> code, count |-> count]

\* [hook, context, body, proof, transition, cta].filter(Boolean)
PresentTexts(script) ==
    LET order == <<"hook", "context", "body", "proof", "transition", "cta">>
        idx == SelectSeq(<<1, 2, 3, 4, 5, 6>>, LAMBDA i : Truthy(script, order[i]))
    IN [i \in 1..Len(idx) |-> script[order[idx[i]]]]

\* a field of white space only counted as present
validateStructure_noTrim(script, errors) ==
    LET missing(f) == ~Truthy(script, f)
    IN errors
       \o (IF missing("hook") THEN <<ValidationError("MISSING_HOOK", 0)>> ELSE <<>>)
       \o (IF missing("body") THEN <<ValidationError("MISSING_BODY", 0)>> ELSE <<>>)
       \o (IF missing("cta") THEN <<ValidationError("MISSING_CTA", 0)>> ELSE <<>>)

validateStructure(script, errors) ==
    LET missing(f) == ~Truthy(script, f) \/ Trim(script[f]) = <<>>
    IN errors
       \o (IF missing("hook") THEN <<ValidationError("MISSING_HOOK", 0)>> ELSE <<>>)
       \o (IF missing("body") THEN <<ValidationError("MISSING_BODY", 0)>> ELSE <<>>)
       \o (IF missing("cta") THEN <<ValidationError("MISSING_CTA", 0)>> ELSE <<>>)

validateNoEmoji(script, errors) ==
    LET allText == JoinText(PresentTexts(script))
    IN IF EMOJI_REGEX_test(allText)
       THEN Append(errors, ValidationError("CONTAINS_EMOJI", 0))
       ELSE errors

validateLength_noUpper(script, errors) ==
    LET totalLength == Length(JoinText(PresentTexts(script)))
    IN IF totalLength < MIN_LENGTH
       THEN Append(errors, ValidationError("TOO_SHORT", totalLength))
       ELSE errors

\* the lower edge compared with <=
validateLength_inclusive(script, errors) ==
    LET totalLength == Length(JoinText(PresentTexts(script)))
    IN errors
       \o (IF totalLength <= MIN_LENGTH
           THEN <<ValidationError("TOO_SHORT", totalLength)>> ELSE <<>>)
       \o (IF totalLength > MAX_LENGTH
           THEN <<ValidationError("TOO_LONG", totalLength)>> ELSE <<>>)

validateLength(script, errors) ==
    LET totalLength == Length(JoinText(PresentTexts(script)))
    IN errors
       \o (IF totalLength < MIN_LENGTH
           THEN <<ValidationError("TOO_SHORT", totalLength)>> ELSE <<>>)
       \o (IF totalLength > MAX_LENGTH
           THEN <<ValidationError("TOO_LONG", totalLength)>> ELSE <<>>)

\* the keyword looked for in the whole text
validateCtaPurpose_allText(script, purpose, errors) ==
    LET keywords == CTA_KEYWORDS[purpose]
        allText == JoinText(PresentTexts(script))
        hasKeyword == \E k \in 1..Len(keywords) : Includes(allText, keywords[k])
    IN IF ~hasKeyword
       THEN Append(errors, ValidationError(CTA_ERROR_CODES[purpose], 0))
       ELSE errors

\* the keyword not looked for when the cta is missing
validateCtaPurpose_skipMissing(script, purpose, errors) ==
    LET keywords == CTA_KEYWORDS[purpose]
        cta == IF Truthy(script, "cta") THEN script.cta ELSE <<>>
        hasKeyword == \E k \in 1..Len(keywords) : Includes(cta, keywords[k])
    IN IF ~hasKeyword /\ Trim(cta) # <<>>
       THEN Append(errors, ValidationError(CTA_ERROR_CODES[purpose], 0))
       ELSE errors

validateCtaPurpose(script, purpose, errors) ==
    LET keywords == CTA_KEYWORDS[purpose]
        cta == IF Truthy(script, "cta") THEN script.cta ELSE <<>>
        hasKeyword == \E k \in 1..Len(keywords) : Includes(cta, keywords[k])
    IN IF ~hasKeyword
       THEN Append(errors, ValidationError(CTA_ERROR_CODES[purpose], 0))
       ELSE errors

\* the later checks skipped once the structure check failed
validateScript_failFast(script, purpose) ==
    LET structure == validateStructure(script, <<>>)
        errors ==
            IF Len(structure) > 0 THEN structure
            ELSE validateCtaPurpose(script, purpose,
                     validateLength(script, validateNoEmoji(script, structure)))
    IN [valid |-> Len(errors) = 0, errors |-> errors]

validateScript(script, purpose) ==
    LET errors ==
            validateCtaPurpose(script, purpose,
                validateLength(script,
                    validateNoEmoji(script,
                        validateStructure(script, <<>>))))
    IN [valid |-> Len(errors) = 0, errors |-> errors]

(***************************************************************************)
(* lib/retry/retry-strategy                                                *)
(***************************************************************************)
MIN_CHARS == 250
MAX_CHARS == 400
MAX_RETRIES == 3
SHORTFALL_THRESHOLD_FOR_RETRY == 50
EXCESS_THRESHOLD_FOR_RETRY == 50

ValidationErrorCodes ==
    {"MISSING_HOOK", "MISSING_BODY", "MISSING_CTA", "INVALID_ORDER",
     "CONTAINS_EMOJI", "TOO_SHORT", "TOO_LONG", "CTA_MISMATCH_LONG_VIDEO",
     "CTA_MISMATCH_LIKE", "CTA_MISMATCH_COMMENT"}

retryableErrors_noOrder ==
    {"CONTAINS_EMOJI", "CTA_MISMATCH_LONG_VIDEO", "CTA_MISMATCH_LIKE",
     "CTA_MISMATCH_COMMENT", "MISSING_HOOK", "MISSING_BODY", "MISSING_CTA"}

retryableErrors ==
    {"CONTAINS_EMOJI", "CTA_MISMATCH_LONG_VIDEO", "CTA_MISMATCH_LIKE",
     "CTA_MISMATCH_COMMENT", "MISSING_HOOK", "MISSING_BODY", "MISSING_CTA",
     "INVALID_ORDER"}

HasCode(errors, code) == \E i \in 1..Len(errors) : errors[i].code = code

\* the shortfall measured from MAX_CHARS
determineRetryAction_shortfallFromMax(errors, currentLength) ==
    IF HasCode(errors, "TOO_SHORT")
    THEN LET shortfall == MAX_CHARS - currentLength
         IN IF shortfall <= SHORTFALL_THRESHOLD_FOR_RETRY
            THEN [action |-> "retry_with_prompt", shortfall |-> shortfall]
            ELSE [action |-> "request_more_info", shortfall |-> shortfall]
    ELSE IF HasCode(errors, "TOO_LONG")
    THEN LET excess == currentLength - MAX_CHARS
         IN IF excess <= EXCESS_THRESHOLD_FOR_RETRY
            THEN [action |-> "retry_with_prompt", excess |-> excess]
            ELSE [action |-> "request_more_info", excess |-> excess]
    ELSE IF \E i \in 1..Len(errors) : errors[i].code \in retryableErrors
    THEN [action |-> "retry_with_prompt"]
    ELSE [action |-> "no_retry"]

\* the excess branch carrying its number as shortfall
determineRetryAction_excessAsShortfall(errors, currentLength) ==
    IF HasCode(errors, "TOO_SHORT")
    THEN LET shortfall == MIN_CHARS - currentLength
         IN IF shortfall <= SHORTFALL_THRESHOLD_FOR_RETRY
            THEN [action |-> "retry_with_prompt", shortfall |-> shortfall]
            ELSE [action |-> "request_more_info", shortfall |-> shortfall]
    ELSE IF HasCode(errors, "TOO_LONG")
    THEN LET excess == currentLength - MAX_CHARS
         IN IF excess <= EXCESS_THRESHOLD_FOR_RETRY
            THEN [action |-> "retry_with_prompt", shortfall |-> excess]
            ELSE [action |-> "request_more_info", shortfall |-> excess]
    ELSE IF \E i \in 1..Len(errors) : errors[i].code \in retryableErrors
    THEN [action |-> "retry_with_prompt"]
    ELSE [action |-> "no_retry"]

\* the retryable codes looked at before the length errors
determineRetryAction_retryableFirst(errors, currentLength) ==
    IF \E i \in 1..Len(errors) : errors[i].code \in retryableErrors
    THEN [action |-> "retry_with_prompt"]
    ELSE IF HasCode(errors, "TOO_SHORT")
    THEN LET shortfall == MIN_CHARS - currentLength
         IN IF shortfall <= SHORTFALL_THRESHOLD_FOR_RETRY
            THEN [action |-> "retry_with_prompt", shortfall |-> shortfall]
            ELSE [action |-> "request_more_info", shortfall |-> shortfall]
    ELSE IF HasCode(errors, "TOO_LONG")
    THEN LET excess == currentLength - MAX_CHARS
         IN IF excess <= EXCESS_THRESHOLD_FOR_RETRY
            THEN [action |-> "retry_with_prompt", excess |-> excess]
            ELSE [action |-> "request_more_info", excess |-> excess]
    ELSE [action |-> "no_retry"]

\* both thresholds compared with < in place of <=
determineRetryAction_strict(errors, currentLength) ==
    IF HasCode(errors, "TOO_SHORT")
    THEN LET shortfall == MIN_CHARS - currentLength
         IN IF shortfall < SHORTFALL_THRESHOLD_FOR_RETRY
            THEN [action |-> "retry_with_prompt", shortfall |-> shortfall]
            ELSE [action |-> "request_more_info", shortfall |-> shortfall]
    ELSE IF HasCode(errors, "TOO_LONG")
    THEN LET excess == currentLength - MAX_CHARS
         IN IF excess < EXCESS_THRESHOLD_FOR_RETRY
            THEN [action |-> "retry_with_prompt", excess |-> excess]
            ELSE [action |-> "request_more_info", excess |-> excess]
    ELSE IF \E i \in 1..Len(errors) : errors[i].code \in retryableErrors
    THEN [action |-> "retry_with_prompt"]
    ELSE [action |-> "no_retry"]

determineRetryAction(errors, currentLength) ==
    IF HasCode(errors, "TOO_SHORT")
    THEN LET shortfall == MIN_CHARS - currentLength
         IN IF shortfall <= SHORTFALL_THRESHOLD_FOR_RETRY
            THEN [action |-> "retry_with_prompt", shortfall |-> shortfall]
            ELSE [action |-> "request_more_info", shortfall |-> shortfall]
    ELSE IF HasCode(errors, "TOO_LONG")
    THEN LET excess == currentLength - MAX_CHARS
         IN IF excess <= EXCESS_THRESHOLD_FOR_RETRY
            THEN [action |-> "retry_with_prompt", excess |-> excess]
            ELSE [action |-> "request_more_info", excess |-> excess]
    ELSE IF \E i \in 1..Len(errors) : errors[i].code \in retryableErrors
    THEN [action |-> "retry_with_prompt"]
    ELSE [action |-> "no_retry"]

canRetry_offByOne(currentAttempt) == currentAttempt <= MAX_RETRIES

canRetry_always(currentAttempt) == currentAttempt >= 0

canRetry(currentAttempt) == currentAttempt < MAX_RETRIES

(***************************************************************************)
(* Prompts: a sequence of segments.  Lit is fixed text of a template, the  *)
(* other segments carry the interpolated value.                            *)
(***************************************************************************)
Seg(kind, text, n) == [k |-> kind, s |-> text, n |-> n]
Lit(name) == Seg("lit", name, 0)
\* a "Q: ..." or "A: ..." line of the hearing block, carrying the content of
\* a turn (a text)
Line(kind, content) == [k |-> kind, t |-> content]

\* Array.prototype.join(sep), over an array of segments
JoinSegs(items, sep) ==
    LET F[i \in 0..Len(items)] ==
            IF i = 0 THEN <<>>
            ELSE IF i = 1 THEN <<items[1]>>
            ELSE F[i - 1] \o <<sep, items[i]>>
    IN F[Len(items)]

\* the two bounds taken for each other in the interpolated numbers
Directive_swappedBounds(error, currentLength) ==
    CASE error.code = "TOO_SHORT" ->
            <<Seg("directive", "TOO_SHORT", MAX_CHARS - currentLength)>>
      [] error.code = "TOO_LONG" ->
            <<Seg("directive", "TOO_LONG", currentLength - MIN_CHARS)>>
      [] error.code \in {"CONTAINS_EMOJI", "CTA_MISMATCH_LONG_VIDEO",
                         "CTA_MISMATCH_LIKE", "CTA_MISMATCH_COMMENT",
                         "MISSING_HOOK", "MISSING_BODY", "MISSING_CTA"} ->
            <<Seg("directive", error.code, 0)>>
      [] OTHER -> <<>>

\* the directive adjustPrompt pushes for one error: the text of the case of
\* its code, with the interpolated number; none for a code without a case
Directive(error, currentLength) ==
    CASE error.code = "TOO_SHORT" ->
            <<Seg("directive", "TOO_SHORT", MIN_CHARS - currentLength)>>
      [] error.code = "TOO_LONG" ->
            <<Seg("directive", "TOO_LONG", currentLength - MAX_CHARS)>>
      [] error.code \in {"CONTAINS_EMOJI", "CTA_MISMATCH_LONG_VIDEO",
                         "CTA_MISMATCH_LIKE", "CTA_MISMATCH_COMMENT",
                         "MISSING_HOOK", "MISSING_BODY", "MISSING_CTA"} ->
            <<Seg("directive", error.code, 0)>>
      [] OTHER -> <<>>

CorrectionHeader == Lit("\\n\\n---\\n## correction\\n")

Adjustments(errors, currentLength) ==
    LET F[i \in 0..Len(errors)] ==
            IF i = 0 THEN <<>> ELSE F[i - 1] \o Directive(errors[i], currentLength)
    IN F[Len(errors)]

\* the initial prompt of a prompt: the segments before its first correction
\* section
WithoutCorrections(p) ==
    LET hdr == {i \in 1..Len(p) : p[i] = CorrectionHeader}
    IN IF hdr = {} THEN p
       ELSE SubSeq(p, 1, (CHOOSE i \in hdr : \A j \in hdr : i <= j) - 1)

adjustPrompt_fromInitial(originalPrompt, errors, currentLength) ==
    LET adjustments == Adjustments(errors, currentLength)
    IN IF Len(adjustments) = 0 THEN originalPrompt
       ELSE WithoutCorrections(originalPrompt) \o <<CorrectionHeader>>
            \o JoinSegs(adjustments, Lit("\\n"))

adjustPrompt(originalPrompt, errors, currentLength) ==
    LET adjustments == Adjustments(errors, currentLength)
    IN IF Len(adjustments) = 0 THEN originalPrompt
       ELSE originalPrompt \o <<CorrectionHeader>>
            \o JoinSegs(adjustments, Lit("\\n"))

(***************************************************************************)
(* lib/prompt-builder, lib/hearing/hearing-prompt-builder                  *)
(***************************************************************************)
PromptBuilder_build(req) ==
    << Lit("plain: role, task"),
       Seg("topic", req.topic, 0),
       Lit("plain: required hook/body/cta, optional context/proof/transition"),
       Seg("ctaInstruction", req.ctaPurpose, 0),
       Lit("plain: no emoji, 250-400 characters, JSON only, omit optional keys") >>

\* lines.join('\n').trim(): the block starts with "Q:", so that trim() takes
\* the final empty line, its line break and the white space that ends the
\* line before it (the "A: " of an answer of white space only loses its own
\* space too, which a segment does not show)
TrimBlock(lines) ==
    IF lines = <<>> THEN <<>>
    ELSE LET kept == SubSeq(lines, 1, Len(lines) - 1)
         IN [kept EXCEPT ![Len(kept)].t = TrimEnd(@)]

\* formatHearingInfo: one "Q:" and one "A:" line and an empty line per pair
\* (history[i], history[i+1]), i = 0, 2, 4, ...
\* a final turn without an answer kept as a question
formatHearingInfo_keepDangling(h) ==
    LET F[p \in 0..(Len(h) \div 2)] ==
            IF p = 0 THEN <<>>
            ELSE F[p - 1] \o << Line("Q", h[2 * p - 1].content),
                               Line("A", h[2 * p].content),
                               Lit("") >>
        lines == F[Len(h) \div 2]
                 \o (IF Len(h) % 2 = 1
                     THEN <<Line("Q", h[Len(h)].content), Lit("")>> ELSE <<>>)
    IN TrimBlock(lines)

\* the answers left out of the block
formatHearingInfo_questionsOnly(h) ==
    LET F[p \in 0..(Len(h) \div 2)] ==
            IF p = 0 THEN <<>>
            ELSE F[p - 1] \o << Line("Q", h[2 * p - 1].content), Lit("") >>
        lines == F[Len(h) \div 2]
    IN TrimBlock(lines)

formatHearingInfo(h) ==
    LET F[p \in 0..(Len(h) \div 2)] ==
            IF p = 0 THEN <<>>
            ELSE F[p - 1] \o << Line("Q", h[2 * p - 1].content),
                               Line("A", h[2 * p].content),
                               Lit("") >>
        lines == F[Len(h) \div 2]
    IN TrimBlock(lines)

\* the value standing for a thrown Error
Thrown(message) == <<Seg("throw", message, 0)>>

\* a transcript without a whole question/answer pair refused too
HearingPromptBuilder_build_needsPair(context) ==
    IF Len(context.history) < 2
    THEN Thrown("no hearing information")
    ELSE << Lit("hearing: role"), Seg("topic", context.topic, 0) >>
         \o formatHearingInfo(context.history)
         \o << Lit("hearing: required hook/body/cta"),
               Seg("ctaInstruction", context.ctaPurpose, 0),
               Lit("hearing: optional, no emoji, 250-400, reflect hearing, JSON") >>

HearingPromptBuilder_build(context) ==
    IF Len(context.history) = 0
    THEN Thrown("no hearing information")
    ELSE << Lit("hearing: role"), Seg("topic", context.topic, 0) >>
         \o formatHearingInfo(context.history)
         \o << Lit("hearing: required hook/body/cta"),
               Seg("ctaInstruction", context.ctaPurpose, 0),
               Lit("hearing: optional, no emoji, 250-400, reflect hearing, JSON") >>

(***************************************************************************)
(* The generation oracle (LLMClient.generateScript): the candidates and    *)
(* failures it may answer with.  Lengths are counted in code units.        *)
(***************************************************************************)
KwLike == Chars(<<"i", "i", "ne">>)

\* 300 characters, required fields only, a like keyword in cta
ScriptValid == [hook |-> Pad(50), body |-> Pad(240), cta |-> Pad(7) \o KwLike]
\* 300 characters over all six fields
ScriptOptional ==
    [hook |-> Pad(40), context |-> Pad(30), body |-> Pad(150), proof |-> Pad(40),
     transition |-> Pad(30), cta |-> Pad(7) \o KwLike]
\* 230 characters and no keyword in cta
ScriptShort20 == [hook |-> Pad(50), body |-> Pad(170), cta |-> Pad(10)]
\* 180 characters
ScriptShort70 == [hook |-> Pad(50), body |-> Pad(120), cta |-> Pad(7) \o KwLike]
\* 200 characters: a shortfall of exactly 50
ScriptShort50 == [hook |-> Pad(50), body |-> Pad(140), cta |-> Pad(7) \o KwLike]
\* 415 characters
ScriptLong15 == [hook |-> Pad(50), body |-> Pad(355), cta |-> Pad(7) \o KwLike]
\* 450 characters: an excess of exactly 50
ScriptLong50 == [hook |-> Pad(50), body |-> Pad(390), cta |-> Pad(7) \o KwLike]
\* 480 characters
ScriptLong80 == [hook |-> Pad(50), body |-> Pad(420), cta |-> Pad(7) \o KwLike]
\* 300 characters, U+2600 in hook
ScriptEmoji ==
    [hook |-> Pad(49) \o Chars(<<"sun">>), body |-> Pad(240), cta |-> Pad(7) \o KwLike]
\* 300 characters, hook empty
ScriptNoHook == [hook |-> <<>>, body |-> Pad(290), cta |-> Pad(7) \o KwLike]

Candidates ==
    {ScriptValid, ScriptOptional, ScriptShort20, ScriptShort50, ScriptShort70,
     ScriptLong15, ScriptLong50, ScriptLong80, ScriptEmoji, ScriptNoHook}

\* LLMResponse: script?, error?, rawOutput
LLMResponses ==
    {[script |-> c, rawOutput |-> "raw"] : c \in Candidates}
    \cup {[error |-> "E1", rawOutput |-> "raw"],
          [error |-> "", rawOutput |-> ""],
          [rawOutput |-> "raw"],
          [script |-> ScriptValid, error |-> "E1", rawOutput |-> "raw"],
          [script |-> ScriptValid, error |-> "", rawOutput |-> "raw"]}

(***************************************************************************)
(* lib/use-case/script-generator                                           *)
(***************************************************************************)
\* the composer chosen by the presence of the history key alone
buildPrompt_anyHistory(req) ==
    IF Has(req, "history")
    THEN HearingPromptBuilder_build(
             [topic |-> req.topic, history |-> req.history,
              ctaPurpose |-> req.ctaPurpose])
    ELSE PromptBuilder_build(req)

buildPrompt(req) ==
    IF Has(req, "history") /\ Len(req.history) > 0
    THEN HearingPromptBuilder_build(
             [topic |-> req.topic, history |-> req.history,
              ctaPurpose |-> req.ctaPurpose])
    ELSE PromptBuilder_build(req)

\* the optional fields left out of the count
calculateScriptLength_noOptional(script) ==
    Length(script.hook) + Length(script.body) + Length(script.cta)

calculateScriptLength(script) ==
    Length(script.hook) + Length(script.body) + Length(script.cta)
    + (IF Truthy(script, "context") THEN Length(script.context) ELSE 0)
    + (IF Truthy(script, "proof") THEN Length(script.proof) ELSE 0)
    + (IF Truthy(script, "transition") THEN Length(script.transition) ELSE 0)

\* llmResponse.error || !llmResponse.script
llmFailed_scriptOnly(llmResponse) == ~Has(llmResponse, "script")

llmFailed(llmResponse) ==
    (Has(llmResponse, "error") /\ llmResponse.error # "")
    \/ ~Has(llmResponse, "script")

DefaultLlmError == "script generation failed"
RetryLimitError == "retry limit reached"

\* the four results generate returns from inside the loop, and the one after it
llmErrorResult_withErrors(llmResponse) ==
    [success |-> FALSE,
     llmError |-> IF Has(llmResponse, "error") THEN llmResponse.error
                  ELSE DefaultLlmError,
     errors |-> <<>>]

llmErrorResult(llmResponse) ==
    [success |-> FALSE,
     llmError |-> IF Has(llmResponse, "error") THEN llmResponse.error
                  ELSE DefaultLlmError]

successResult(script) == [success |-> TRUE, script |-> script]

moreInfoResult_noFlag(errors) == [success |-> FALSE, errors |-> errors]

moreInfoResult(errors) ==
    [success |-> FALSE, errors |-> errors, needsMoreInfo |-> TRUE]

failureResult_moreInfo(errors) ==
    [success |-> FALSE, errors |-> errors, needsMoreInfo |-> TRUE]

failureResult(errors) == [success |-> FALSE, errors |-> errors]

retryLimitResult == [success |-> FALSE, llmError |-> RetryLimitError]

NoResult == [pending |-> TRUE]

\* the head of the while loop with prompt p and attempt a: either the next
\* oracle call is issued (attempt++, await generateScript(prompt)) or the
\* loop is left and the result after it returned
LoopHead(p, a, log) ==
    IF canRetry(a)
    THEN [pc |-> "await", prompt |-> p, attempt |-> a + 1,
          result |-> NoResult, oracleLog |-> Append(log, [prompt |-> p])]
    ELSE [pc |-> "done", prompt |-> p, attempt |-> a,
          result |-> retryLimitResult, oracleLog |-> log]

\* the retry taken without asking canRetry(attempt) again
LoopBody_retryUnchecked(req, p, a, log, llmResponse) ==
    LET logged == [log EXCEPT ![Len(log)] =
                       [prompt |-> log[Len(log)].prompt, response |-> llmResponse]]
        done(res) == [pc |-> "done", prompt |-> p, attempt |-> a,
                      result |-> res, oracleLog |-> logged]
    IN IF llmFailed(llmResponse)
       THEN done(llmErrorResult(llmResponse))
       ELSE LET validationResult == validateScript(llmResponse.script, req.ctaPurpose)
            IN IF validationResult.valid
               THEN done(successResult(llmResponse.script))
               ELSE LET currentLength == calculateScriptLength(llmResponse.script)
                        retryDecision ==
                            determineRetryAction(validationResult.errors, currentLength)
                    IN IF retryDecision.action = "request_more_info"
                       THEN done(moreInfoResult(validationResult.errors))
                       ELSE IF retryDecision.action = "retry_with_prompt"
                       THEN LoopHead(adjustPrompt(p, validationResult.errors,
                                                  currentLength), a, logged)
                       ELSE done(failureResult(validationResult.errors))

\* the loop body after the await, for the response llmResponse
LoopBody(req, p, a, log, llmResponse) ==
    LET logged == [log EXCEPT ![Len(log)] =
                       [prompt |-> log[Len(log)].prompt, response |-> llmResponse]]
        done(res) == [pc |-> "done", prompt |-> p, attempt |-> a,
                      result |-> res, oracleLog |-> logged]
    IN IF llmFailed(llmResponse)
       THEN done(llmErrorResult(llmResponse))
       ELSE LET validationResult == validateScript(llmResponse.script, req.ctaPurpose)
            IN IF validationResult.valid
               THEN done(successResult(llmResponse.script))
               ELSE LET currentLength == calculateScriptLength(llmResponse.script)
                        retryDecision ==
                            determineRetryAction(validationResult.errors, currentLength)
                    IN IF retryDecision.action = "request_more_info"
                       THEN done(moreInfoResult(validationResult.errors))
                       ELSE IF retryDecision.action = "retry_with_prompt" /\ canRetry(a)
                       THEN LoopHead(adjustPrompt(p, validationResult.errors,
                                                  currentLength), a, logged)
                       ELSE done(failureResult(validationResult.errors))

(***************************************************************************)
(* app/api/generate/route: POST                                            *)
(***************************************************************************)
Topics == {"", "morning routines"}
Transcript == << [role |-> "assistant", content |-> Chars(<<"q">>)],
                 [role |-> "user", content |-> Chars(<<"a">>)] >>

\* the JSON bodies a client may send
Bodies ==
    LET base == [topic : Topics, ctaPurpose : CtaPurposes \cup {"subscribe"}]
    IN base \cup {[topic |-> b.topic, ctaPurpose |-> b.ctaPurpose, history |-> h] :
                     b \in base, h \in {<<>>, Transcript}}

POST(body, apiKey) ==
    /\ pc \in {"idle", "done", "rejected", "caught"}
    /\ nCalls < MaxCalls
    /\ nCalls' = nCalls + 1
    /\ request' = body
    /\ IF body.topic = ""
       THEN /\ pc' = "rejected"
            /\ result' = [success |-> FALSE, llmError |-> "no topic"]
            /\ prompt' = <<>> /\ attempt' = 0 /\ oracleLog' = <<>>
       ELSE IF body.ctaPurpose \notin CtaPurposes
       THEN /\ pc' = "rejected"
            /\ result' = [success |-> FALSE, llmError |-> "invalid CTA purpose"]
            /\ prompt' = <<>> /\ attempt' = 0 /\ oracleLog' = <<>>
       ELSE IF ~apiKey
       THEN /\ pc' = "rejected"
            /\ result' = [success |-> FALSE, llmError |-> "no API key"]
            /\ prompt' = <<>> /\ attempt' = 0 /\ oracleLog' = <<>>
       ELSE \* generator.generate({ topic, ctaPurpose, history }), up to the await
            \E next \in {LoopHead(buildPrompt(body), 0, <<>>)} :
               /\ pc' = next.pc
               /\ prompt' = next.prompt
               /\ attempt' = next.attempt
               /\ result' = next.result
               /\ oracleLog' = next.oracleLog
    /\ UNCHANGED <<frames, page>>
    /\ UNCHANGED sessionVars
    /\ UNCHANGED callVars

\* the awaited generateScript call resolves with llmResponse, and generate
\* runs to its next await or to its return
generate_resume(llmResponse) ==
    /\ pc = "await"
    /\ Len(oracleLog) <= AttemptCap
    /\ \E next \in {LoopBody(request, prompt, attempt, oracleLog, llmResponse)} :
          /\ pc' = next.pc
          /\ prompt' = next.prompt
          /\ attempt' = next.attempt
          /\ result' = next.result
          /\ oracleLog' = next.oracleLog
    /\ UNCHANGED <<request, nCalls, frames, page>>
    /\ UNCHANGED sessionVars
    /\ UNCHANGED callVars

\* the values an oracle call may throw: an Error with a message, or not an
\* Error
ThrownValues ==
    {[isError |-> TRUE, message |-> "boom"], [isError |-> FALSE, message |-> ""]}

\* the awaited generateScript call throws (its promise rejects): generate
\* has no try around the await, so that its own promise rejects with the same
\* value, and the catch of POST answers
generate_reject(thrown) ==
    /\ pc = "await"
    /\ Len(oracleLog) <= AttemptCap
    /\ pc' = "caught"
    /\ oracleLog' = [oracleLog EXCEPT ![Len(oracleLog)] =
                         [prompt |-> oracleLog[Len(oracleLog)].prompt,
                          thrown |-> thrown]]
    /\ result' = [success |-> FALSE, llmError |-> "error during generation"]
    /\ UNCHANGED <<request, prompt, attempt, nCalls, frames, page>>
    /\ UNCHANGED sessionVars
    /\ UNCHANGED callVars

(***************************************************************************)
(* lib/hearing/hearing-session                                             *)
(***************************************************************************)
start ==
    /\ state' = "in_progress"
    /\ UNCHANGED <<topic, history, heap, ctaPurpose>>
    /\ UNCHANGED generateVars
    /\ UNCHANGED callVars

complete ==
    /\ state' = "completed"
    /\ UNCHANGED <<topic, history, heap, ctaPurpose>>
    /\ UNCHANGED generateVars
    /\ UNCHANGED callVars

\* generation allowed as soon as a question was answered
canGenerate_afterAnswer ==
    IF state = "not_started"
    THEN [allowed |-> FALSE, reason |-> "HEARING_NOT_STARTED"]
    ELSE IF state = "in_progress" /\ Len(history) < 2
    THEN [allowed |-> FALSE, reason |-> "HEARING_NOT_COMPLETED"]
    ELSE [allowed |-> TRUE]

canGenerate ==
    IF state = "not_started"
    THEN [allowed |-> FALSE, reason |-> "HEARING_NOT_STARTED"]
    ELSE IF state = "in_progress"
    THEN [allowed |-> FALSE, reason |-> "HEARING_NOT_COMPLETED"]
    ELSE [allowed |-> TRUE]

\* the messages a caller may pass
HearingMessages ==
    {[role |-> "assistant", content |-> Chars(<<"q">>)],
     [role |-> "user", content |-> Chars(<<"a">>)],
     [role |-> "assistant", content |-> Chars(<<"a">>)]}

\* the turns an array of references stands for, in a heap
Deref(refs, objects) == [i \in 1..Len(refs) |-> objects[refs[i]]]

setTopic(t) ==
    /\ topic' = t
    /\ args' = [op |-> "setTopic", topic |-> t]
    /\ UNCHANGED <<state, history, heap, ctaPurpose, ret>>
    /\ UNCHANGED generateVars

setCtaPurpose(purpose) ==
    /\ ctaPurpose' = purpose
    /\ args' = [op |-> "setCtaPurpose", purpose |-> purpose]
    /\ UNCHANGED <<state, topic, history, heap, ret>>
    /\ UNCHANGED generateVars

\* the condition a state check in addMessage would add
addMessage_onlyInProgress(message) ==
    /\ state = "in_progress"
    /\ Len(heap) < MaxObjects
    /\ heap' = Append(heap, message)
    /\ history' = Append(history, Len(heap) + 1)
    /\ args' = [op |-> "addMessage", message |-> message, state |-> state]
    /\ UNCHANGED <<state, topic, ctaPurpose, ret>>
    /\ UNCHANGED generateVars

\* this.history.push(message): message is an object the caller made
addMessage(message) ==
    /\ Len(heap) < MaxObjects
    /\ heap' = Append(heap, message)
    /\ history' = Append(history, Len(heap) + 1)
    /\ args' = [op |-> "addMessage", message |-> message, state |-> state]
    /\ UNCHANGED <<state, topic, ctaPurpose, ret>>
    /\ UNCHANGED generateVars

call_canGenerate ==
    /\ args' = [op |-> "canGenerate"]
    /\ ret' = [of |-> "canGenerate", value |-> canGenerate]
    /\ UNCHANGED sessionVars
    /\ UNCHANGED generateVars

HearingNotCompleted == "hearing not completed"

\* the context returned whatever the state
getContextForGeneration_noCheck ==
    /\ args' = [op |-> "getContextForGeneration"]
    /\ ret' = [of |-> "getContextForGeneration",
               value |-> [topic |-> topic, history |-> history,
                          ctaPurpose |-> ctaPurpose]]
    /\ UNCHANGED sessionVars
    /\ UNCHANGED generateVars

\* history: [...this.history] is a new array of the same references
getContextForGeneration ==
    /\ args' = [op |-> "getContextForGeneration"]
    /\ ret' = IF state # "completed"
              THEN [of |-> "getContextForGeneration", thrown |-> HearingNotCompleted]
              ELSE [of |-> "getContextForGeneration",
                    value |-> [topic |-> topic, history |-> history,
                               ctaPurpose |-> ctaPurpose]]
    /\ UNCHANGED sessionVars
    /\ UNCHANGED generateVars

\* the caller holds a HearingContext
HoldsContext == ret.of = "getContextForGeneration" /\ Has(ret, "value")

\* the holder of a returned context appends a turn to its history
context_push(message) ==
    /\ HoldsContext
    /\ Len(heap) < MaxObjects
    /\ heap' = Append(heap, message)
    /\ ret' = [ret EXCEPT !.value.history = Append(@, Len(heap) + 1)]
    /\ args' = [op |-> "context_push", message |-> message]
    /\ UNCHANGED <<state, topic, history, ctaPurpose>>
    /\ UNCHANGED generateVars

\* the holder of a returned context edits the content of its turn i
context_edit(i, content) ==
    /\ HoldsContext
    /\ i \in 1..Len(ret.value.history)
    /\ heap' = [heap EXCEPT ![ret.value.history[i]].content = content]
    /\ args' = [op |-> "context_edit", index |-> i, content |-> content]
    /\ UNCHANGED <<state, topic, history, ctaPurpose, ret>>
    /\ UNCHANGED generateVars

(***************************************************************************)
(* Specifications.                                                         *)
(***************************************************************************)
NoArgs == [errors |-> <<>>, currentLength |-> 0, originalPrompt |-> <<>>]
NoReturn == [of |-> "none"]

InitSession ==
    /\ state = "not_started"
    /\ topic = ""
    /\ history = <<>>
    /\ heap = <<>>
    /\ ctaPurpose = "longVideo"

\* no generate call runs beside the one of POST, and no page is open
NoFrames == <<>>
NoPage == [appState |-> "closed"]

InitPost ==
    /\ pc = "idle"
    /\ request = [topic |-> "", ctaPurpose |-> "longVideo"]
    /\ prompt = <<>>
    /\ attempt = 0
    /\ result = NoResult
    /\ oracleLog = <<>>
    /\ nCalls = 0

InitGenerate ==
    /\ InitPost
    /\ frames = NoFrames
    /\ page = NoPage

Init ==
    /\ InitSession
    /\ InitGenerate
    /\ args = NoArgs
    /\ ret = NoReturn

OracleReturns == \E r \in LLMResponses : generate_resume(r)

Next ==
    \/ \E body \in Bodies, apiKey \in BOOLEAN : POST(body, apiKey)
    \/ OracleReturns
    \/ start
    \/ complete

Spec == Init /\ [][Next]_vars

\* every oracle call eventually returns
FairSpec == Spec /\ WF_vars(OracleReturns)

\* the generation pipeline with an oracle that may also fail by throwing
OracleThrows == \E thrown \in ThrownValues : generate_reject(thrown)

NextThrow == Next \/ OracleThrows

SpecThrow == Init /\ [][NextThrow]_vars

(***************************************************************************)
(* Generate calls running side by side, on one ScriptGenerator or on       *)
(* several: each call is a frame holding the locals of its invocation of   *)
(* generate (request, prompt, attempt) and its oracle calls.  The fields   *)
(* of a ScriptGenerator are assigned in the constructor only, and          *)
(* PromptBuilder, HearingPromptBuilder and RetryStrategy have no fields    *)
(* that change, so that the instance a call runs on makes no difference.   *)
(* The calls interleave at their awaits.                                   *)
(***************************************************************************)
ConcurrentRequests ==
    {[topic |-> "morning routines", ctaPurpose |-> "like"],
     [topic |-> "morning routines", ctaPurpose |-> "comment",
      history |-> Transcript]}

ConcurrentResponses ==
    {[script |-> ScriptValid, rawOutput |-> "raw"],
     [script |-> ScriptShort20, rawOutput |-> "raw"],
     [error |-> "E1", rawOutput |-> "raw"]}

IdleFrame ==
    [pc |-> "idle", request |-> [topic |-> "", ctaPurpose |-> "longVideo"],
     prompt |-> <<>>, attempt |-> 0, result |-> NoResult, oracleLog |-> <<>>]

\* the frame of a call for req that has run to next
Frame(req, next) ==
    [pc |-> next.pc, request |-> req, prompt |-> next.prompt,
     attempt |-> next.attempt, result |-> next.result,
     oracleLog |-> next.oracleLog]

InitConcurrent ==
    /\ InitSession
    /\ InitPost
    /\ frames = [id \in 1..MaxInFlight |-> IdleFrame]
    /\ page = NoPage
    /\ args = NoArgs
    /\ ret = NoReturn

\* generate(req) is called and runs to its first await
generate_call(id, req) ==
    /\ frames[id].pc = "idle"
    /\ \E next \in {LoopHead(buildPrompt(req), 0, <<>>)} :
          frames' = [frames EXCEPT ![id] = Frame(req, next)]
    /\ UNCHANGED <<postVars, page>>
    /\ UNCHANGED sessionVars
    /\ UNCHANGED callVars

\* prompt and attempt kept in one place for all calls, as fields of the
\* generator would be: a call resumes with those of the call that advanced
\* furthest
generate_return_sharedLocals(id, llmResponse) ==
    /\ frames[id].pc = "await"
    /\ \E f \in {frames[id]} :
       \E g \in {frames[CHOOSE j \in 1..Len(frames) :
                            \A k \in 1..Len(frames) :
                                frames[k].attempt <= frames[j].attempt]} :
       \E next \in {LoopBody(f.request, g.prompt, g.attempt, f.oracleLog,
                             llmResponse)} :
          frames' = [frames EXCEPT ![id] = Frame(f.request, next)]
    /\ UNCHANGED <<postVars, page>>
    /\ UNCHANGED sessionVars
    /\ UNCHANGED callVars

\* the oracle call awaited by call id resolves, and the call runs to its next
\* await or to its return
generate_return(id, llmResponse) ==
    /\ frames[id].pc = "await"
    /\ \E f \in {frames[id]} :
       \E next \in {LoopBody(f.request, f.prompt, f.attempt, f.oracleLog,
                             llmResponse)} :
          frames' = [frames EXCEPT ![id] = Frame(f.request, next)]
    /\ UNCHANGED <<postVars, page>>
    /\ UNCHANGED sessionVars
    /\ UNCHANGED callVars

NextConcurrent ==
    \/ \E id \in 1..MaxInFlight, req \in ConcurrentRequests : generate_call(id, req)
    \/ \E id \in 1..MaxInFlight, r \in ConcurrentResponses : generate_return(id, r)

SpecConcurrent == InitConcurrent /\ [][NextConcurrent]_vars

(***************************************************************************)
(* A HearingSession and its caller: any sequence of the session's methods, *)
(* and of changes the caller makes through a context it was returned.      *)
(***************************************************************************)
NextHearing ==
    \/ start
    \/ complete
    \/ \E t \in Topics : setTopic(t)
    \/ \E purpose \in CtaPurposes : setCtaPurpose(purpose)
    \/ \E message \in HearingMessages : addMessage(message)
    \/ call_canGenerate
    \/ getContextForGeneration
    \/ \E message \in HearingMessages : context_push(message)
    \/ \E i \in 1..MaxObjects : context_edit(i, Chars(<<"edited">>))

SpecHearing == Init /\ [][NextHearing]_vars

(***************************************************************************)
(* The retry-strategy functions called directly, as their unit tests do:   *)
(* on any list of validation errors (no code twice, at most MaxErrs of     *)
(* them), any measured length of CallLengths and a prompt.                 *)
(***************************************************************************)
CallLengths == {180, 199, 200, 230, 242, 249, 300, 401, 415, 450, 451, 480}

\* the lists of n distinct codes
RECURSIVE CodeLists(_)
CodeLists(n) ==
    IF n = 0 THEN {<<>>}
    ELSE {Append(l, c) : l \in CodeLists(n - 1), c \in ValidationErrorCodes}

DistinctCodeLists ==
    {l \in UNION {CodeLists(n) : n \in 0..MaxErrs} :
        \A i, j \in 1..Len(l) : i # j => l[i] # l[j]}

ErrorList(codes, len) ==
    [i \in 1..Len(codes) |->
        ValidationError(codes[i],
                        IF codes[i] \in {"TOO_SHORT", "TOO_LONG"} THEN len ELSE 0)]

CallPrompt == <<Lit("topic: morning routines")>>

InitRetry ==
    /\ InitSession
    /\ InitGenerate
    /\ \E codes \in DistinctCodeLists, len \in CallLengths :
           args = [errors |-> ErrorList(codes, len), currentLength |-> len,
                   originalPrompt |-> CallPrompt]
    /\ ret = NoReturn

call_determineRetryAction ==
    /\ ret.of = "none"
    /\ ret' = [of |-> "determineRetryAction",
               value |-> determineRetryAction(args.errors, args.currentLength)]
    /\ UNCHANGED <<args, sessionVars, generateVars>>

call_adjustPrompt ==
    /\ ret.of = "none"
    /\ ret' = [of |-> "adjustPrompt",
               value |-> adjustPrompt(args.originalPrompt, args.errors,
                                      args.currentLength)]
    /\ UNCHANGED <<args, sessionVars, generateVars>>

NextRetry == call_determineRetryAction \/ call_adjustPrompt

SpecRetry == InitRetry /\ [][NextRetry]_vars

(***************************************************************************)
(* validateScript called directly, as its unit tests do: on any candidate  *)
(* put together from the field values below (a field may also be absent)   *)
(* and any CTA purpose.                                                    *)
(***************************************************************************)
\* the value standing for an absent key
Absent == <<[c |-> "absent", n |-> 0]>>

\* a text of 10 code units ending with the keyword kw
CtaWith(kw) == Pad(10 - Len(kw)) \o Chars(kw)

HookTexts ==
    {Absent, <<>>, Run("sp", 2), Pad(50),
     Run("sp", 1) \o Pad(48) \o Run("sp", 1),
     Pad(49) \o Chars(<<"sun">>),
     Pad(48) \o Chars(<<"hi", "lo">>),
     Pad(49) \o Chars(<<"hi">>),
     Pad(47) \o KwLike}

ContextTexts ==
    {Absent, <<>>, Pad(30), Chars(<<"lo">>) \o Pad(29),
     Pad(28) \o Chars(<<"chou", "jaku">>)}

BodyTexts ==
    {Absent, Run("sp", 190), Pad(139), Pad(140), Pad(189), Pad(190), Pad(290),
     Pad(291), Pad(340), Pad(341), Chars(<<"lo">>) \o Pad(189), Pad(189) \o Chars(<<"sun">>)}

ProofTexts == {Absent, Pad(20)}

TransitionTexts == {Absent, Chars(<<"hi", "lo">>) \o Pad(18)}

CtaTexts ==
    {Absent, <<>>, Run("sp", 10), Pad(10), Pad(6) \o KwLike \o Chars(<<"sun">>)}
    \cup {CtaWith(CTA_KEYWORDS[p][k]) : p \in CtaPurposes, k \in 1..3}

\* the candidate holding the keys of choice that are not absent
MakeScript(choice) ==
    [f \in {g \in DOMAIN choice : choice[g] # Absent} |-> choice[f]]

ValidatorInputs ==
    [hook : HookTexts, context : ContextTexts, body : BodyTexts,
     proof : ProofTexts, transition : TransitionTexts, cta : CtaTexts]

InitValidate ==
    /\ InitSession
    /\ InitGenerate
    /\ \E choice \in ValidatorInputs, purpose \in CtaPurposes :
           args = [script |-> MakeScript(choice), ctaPurpose |-> purpose]
    /\ ret = NoReturn

call_validateScript ==
    /\ ret.of = "none"
    /\ ret' = [of |-> "validateScript",
               value |-> validateScript(args.script, args.ctaPurpose)]
    /\ UNCHANGED <<args, sessionVars, generateVars>>

\* generate, from the validation of a candidate of type Script (hook, body
\* and cta are strings) to the retry decision on it
generate_decide ==
    /\ ret.of = "none"
    /\ RequiredFields \subseteq DOMAIN args.script
    /\ \E validationResult \in {validateScript(args.script, args.ctaPurpose)} :
          IF validationResult.valid
          THEN ret' = [of |-> "generate_decide",
                       validationResult |-> validationResult]
          ELSE \E currentLength \in {calculateScriptLength(args.script)} :
                  ret' = [of |-> "generate_decide",
                          validationResult |-> validationResult,
                          currentLength |-> currentLength,
                          retryDecision |->
                              determineRetryAction(validationResult.errors,
                                                   currentLength)]
    /\ UNCHANGED <<args, sessionVars, generateVars>>

NextValidate == call_validateScript \/ generate_decide

SpecValidate == InitValidate /\ [][NextValidate]_vars

(***************************************************************************)
(* HearingPromptBuilder.build called directly, as its unit tests do: on a  *)
(* context with any transcript of at most MaxTurns turns.                  *)
(***************************************************************************)
\* the turns of these transcripts: an answer may end with a space, as
\* sendResponse of the page sends the input field untrimmed
ComposeMessages ==
    HearingMessages \cup {[role |-> "user", content |-> Chars(<<"a", "sp">>)]}

RECURSIVE Transcripts(_)
Transcripts(n) ==
    IF n = 0 THEN {<<>>}
    ELSE {Append(h, m) : h \in Transcripts(n - 1), m \in ComposeMessages}

HearingContexts ==
    [topic : {"morning routines"},
     history : UNION {Transcripts(n) : n \in 0..MaxTurns},
     ctaPurpose : CtaPurposes]

InitCompose ==
    /\ InitSession
    /\ InitGenerate
    /\ \E context \in HearingContexts : args = [context |-> context]
    /\ ret = NoReturn

call_HearingPromptBuilder_build ==
    /\ ret.of = "none"
    /\ \E built \in {HearingPromptBuilder_build(args.context)} :
          ret' = IF Len(built) = 1 /\ built[1].k = "throw"
                 THEN [of |-> "HearingPromptBuilder_build", thrown |-> built[1].s]
                 ELSE [of |-> "HearingPromptBuilder_build", value |-> built]
    /\ UNCHANGED <<args, sessionVars, generateVars>>

NextCompose == call_HearingPromptBuilder_build

SpecCompose == InitCompose /\ [][NextCompose]_vars

(***************************************************************************)
(* lib/hearing/hearing-ai, lib/llm/fake-llm: generateNextQuestion called   *)
(* on a topic, a transcript of at most MaxTurns turns and a dialogue       *)
(* oracle, after any configuration of the oracle.  args.llm holds the      *)
(* fields of the oracle (error and customResponse are absent until set);   *)
(* an oracle whose generateScript fails by throwing has the field rejects, *)
(* the value thrown.                                                       *)
(***************************************************************************)
CustomResponses ==
    {[type |-> "question", content |-> Lit("custom question")],
     [type |-> "complete", content |-> Lit("enough information")]}

\* new FakeLLM(), new FakeLLM(undefined, error), and the throwing oracles
Oracles ==
    {[class |-> "FakeLLM"], [class |-> "FakeLLM", error |-> "E1"]}
    \cup {[class |-> "throwing", rejects |-> v] : v \in ThrownValues}

\* obj with its property f set to v
WithField(obj, f, v) ==
    [g \in DOMAIN obj \cup {f} |-> IF g = f THEN v ELSE obj[g]]

InitDialogue ==
    /\ InitSession
    /\ InitGenerate
    /\ \E t \in Topics \ {""}, h \in UNION {Transcripts(n) : n \in 0..MaxTurns},
          llm \in Oracles :
           args = [topic |-> t, history |-> h, llm |-> llm]
    /\ ret = NoReturn

setError(error) ==
    /\ ret.of = "none"
    /\ args' = [args EXCEPT !.llm = WithField(args.llm, "error", error)]
    /\ UNCHANGED <<ret, sessionVars, generateVars>>

setCustomResponse(response) ==
    /\ ret.of = "none"
    /\ args' = [args EXCEPT !.llm = WithField(args.llm, "customResponse", response)]
    /\ UNCHANGED <<ret, sessionVars, generateVars>>

FakeLLM_generateScript(llm) ==
    IF Has(llm, "error") /\ llm.error # ""
    THEN [error |-> llm.error, rawOutput |-> "FakeLLM Error"]
    ELSE [script |-> ScriptValid, rawOutput |-> "FakeLLM Response"]

\* how the promise of llm.generateScript('') settles
Settles(llm) ==
    IF Has(llm, "rejects") THEN [rejected |-> llm.rejects]
    ELSE [resolved |-> FakeLLM_generateScript(llm)]

AckQuestion(t) == Seg("acknowledge topic, ask the audience", t, 0)

FallbackQuestions ==
    << Lit("which message?"), Lit("which action of the viewer?"),
       Lit("which episode or numbers?") >>

\* the question chosen by the number of all turns
getDefaultQuestion_countTurns(t, h) ==
    IF Len(h) = 0 THEN AckQuestion(t)
    ELSE FallbackQuestions[(Len(h) % Len(FallbackQuestions)) + 1]

getDefaultQuestion(t, h) ==
    IF Len(h) = 0 THEN AckQuestion(t)
    ELSE LET questionCount ==
                 Len(SelectSeq(h, LAMBDA m : m.role = "assistant"))
         IN FallbackQuestions[(questionCount % Len(FallbackQuestions)) + 1]

\* generateNextQuestion up to its await, or to the return of the custom
\* response
generateNextQuestion ==
    /\ ret.of = "none"
    /\ ret' = IF Has(args.llm, "customResponse")
              THEN [of |-> "generateNextQuestion",
                    value |-> args.llm.customResponse]
              ELSE [of |-> "generateNextQuestion",
                    awaiting |-> Settles(args.llm)]
    /\ UNCHANGED <<args, sessionVars, generateVars>>

\* the awaited promise settles and generateNextQuestion returns
generateNextQuestion_resume ==
    /\ ret.of = "generateNextQuestion" /\ Has(ret, "awaiting")
    /\ \E outcome \in {ret.awaiting} :
          ret' = [of |-> "generateNextQuestion",
                  value |->
                      IF Has(outcome, "rejected")
                      THEN [type |-> "error",
                            error |-> IF outcome.rejected.isError
                                      THEN outcome.rejected.message
                                      ELSE "Unknown error"]
                      ELSE IF Has(outcome.resolved, "error")
                              /\ outcome.resolved.error # ""
                      THEN [type |-> "error", error |-> outcome.resolved.error]
                      ELSE [type |-> "question",
                            content |-> getDefaultQuestion(args.topic,
                                                           args.history)]]
    /\ UNCHANGED <<args, sessionVars, generateVars>>

NextDialogue ==
    \/ \E error \in {"E1", ""} : setError(error)
    \/ \E response \in CustomResponses : setCustomResponse(response)
    \/ generateNextQuestion
    \/ generateNextQuestion_resume

SpecDialogue == InitDialogue /\ [][NextDialogue]_vars

(***************************************************************************)
(* app/page.tsx: the Home component.  page holds its state (appState,      *)
(* topic, ctaPurpose, history, userInput, isLoading, result), the request  *)
(* it is waiting for (pending: the body sent, which for sendResponse is    *)
(* the newHistory its continuation holds) and two observations that are    *)
(* not state of the component: pending.from, the appState in which a       *)
(* generate request was sent, and seenComplete, whether a hearing response *)
(* of type complete arrived since the last reset.  A handler runs only     *)
(* when its control is rendered and enabled.  The reference-video analysis *)
(* and the select of the CTA purpose touch none of the state read here.    *)
(* The transcript is held to MaxTurns turns.                               *)
(***************************************************************************)
NullResult == [null |-> TRUE]
NoRequest == [kind |-> "none"]

\* what the user may type into the topic field and into the answer field
TopicInputs == {<<>>, Run("sp", 1), Chars(<<"t">>)}
AnswerInputs == {<<>>, Run("sp", 1), Chars(<<"a">>)}

\* how a fetch of /api/hearing may end: a body (content is empty when the
\* response has none), or a failed fetch or body
HearingOutcomes ==
    {[data |-> [type |-> t, content |-> c]] :
        t \in {"question", "complete"}, c \in {<<>>, Chars(<<"q">>)}}
    \cup {[data |-> [type |-> "error", content |-> <<>>]], [failed |-> TRUE]}

\* how a fetch of /api/generate may end
GenerateOutcomes ==
    {[data |-> [success |-> TRUE]], [data |-> [success |-> FALSE]],
     [failed |-> TRUE]}

InitClient ==
    /\ InitSession
    /\ InitPost
    /\ frames = NoFrames
    /\ page = [appState |-> "input", topic |-> <<>>, ctaPurpose |-> "longVideo",
               history |-> <<>>, userInput |-> <<>>, isLoading |-> FALSE,
               result |-> NullResult, pending |-> NoRequest,
               seenComplete |-> FALSE]
    /\ args = NoArgs
    /\ ret = NoReturn

\* the page goes to next, and nothing else changes
PageStep(next) ==
    /\ page' = next
    /\ UNCHANGED <<postVars, frames>>
    /\ UNCHANGED sessionVars
    /\ UNCHANGED callVars

\* onChange of the topic field
type_topic(text) ==
    /\ page.appState = "input" /\ ~page.isLoading
    /\ PageStep([page EXCEPT !.topic = text])

\* onChange of the answer field
type_userInput(text) ==
    /\ page.appState = "hearing" /\ ~page.isLoading
    /\ PageStep([page EXCEPT !.userInput = text])

\* startHearing, to its await
startHearing ==
    /\ page.appState = "input" /\ ~page.isLoading
    /\ Trim(page.topic) # <<>>
    /\ PageStep([page EXCEPT
                    !.isLoading = TRUE, !.appState = "hearing", !.history = <<>>,
                    !.pending = [kind |-> "start",
                                 body |-> [topic |-> page.topic, history |-> <<>>]]])

\* startHearing, after its await
startHearing_resume(outcome) ==
    /\ page.pending.kind = "start"
    /\ PageStep(
          IF ~Has(outcome, "data") \/ outcome.data.type = "error"
          THEN [page EXCEPT !.appState = "input", !.isLoading = FALSE,
                            !.pending = NoRequest]
          ELSE IF outcome.data.content # <<>>
          THEN [page EXCEPT
                   !.history = <<[role |-> "assistant",
                                  content |-> outcome.data.content]>>,
                   !.isLoading = FALSE, !.pending = NoRequest]
          ELSE [page EXCEPT !.isLoading = FALSE, !.pending = NoRequest])

\* sendResponse, to its await
sendResponse ==
    /\ page.appState = "hearing" /\ ~page.isLoading
    /\ Trim(page.userInput) # <<>>
    /\ Len(page.history) < MaxTurns
    /\ \E newHistory \in {Append(page.history,
                                 [role |-> "user", content |-> page.userInput])} :
          PageStep([page EXCEPT
                      !.history = newHistory, !.userInput = <<>>,
                      !.isLoading = TRUE,
                      !.pending = [kind |-> "send",
                                   body |-> [topic |-> page.topic,
                                             history |-> newHistory]]])

\* sendResponse, after its await
sendResponse_resume(outcome) ==
    /\ page.pending.kind = "send"
    /\ \E newHistory \in {page.pending.body.history} :
       \E replied \in {IF Has(outcome, "data") /\ outcome.data.content # <<>>
                        THEN Append(newHistory,
                                    [role |-> "assistant",
                                     content |-> outcome.data.content])
                        ELSE page.history} :
          PageStep(
            IF Has(outcome, "data") /\ outcome.data.type = "complete"
            THEN [page EXCEPT !.history = replied, !.appState = "ready",
                              !.seenComplete = TRUE,
                              !.isLoading = FALSE, !.pending = NoRequest]
            ELSE IF Has(outcome, "data") /\ outcome.data.type = "question"
            THEN [page EXCEPT !.history = replied,
                              !.isLoading = FALSE, !.pending = NoRequest]
            ELSE [page EXCEPT !.isLoading = FALSE, !.pending = NoRequest])

\* a generate button shown beside the answer field as well
generateScript_fromHearing ==
    /\ page.appState \in {"hearing", "ready", "result"} /\ ~page.isLoading
    /\ PageStep([page EXCEPT
                    !.isLoading = TRUE, !.appState = "generating",
                    !.pending = [kind |-> "generate", from |-> page.appState,
                                 body |-> [topic |-> page.topic,
                                           ctaPurpose |-> page.ctaPurpose,
                                           history |-> page.history]]])

\* generateScript, to its await: the buttons of the ready area and of the
\* result actions
generateScript ==
    /\ page.appState \in {"ready", "result"} /\ ~page.isLoading
    /\ PageStep([page EXCEPT
                    !.isLoading = TRUE, !.appState = "generating",
                    !.pending = [kind |-> "generate", from |-> page.appState,
                                 body |-> [topic |-> page.topic,
                                           ctaPurpose |-> page.ctaPurpose,
                                           history |-> page.history]]])

\* generateScript, after its await
generateScript_resume(outcome) ==
    /\ page.pending.kind = "generate"
    /\ PageStep([page EXCEPT
                    !.result = IF Has(outcome, "data") THEN outcome.data
                               ELSE [success |-> FALSE],
                    !.appState = "result",
                    !.isLoading = FALSE, !.pending = NoRequest])

reset ==
    /\ page.appState \in {"ready", "result"} /\ ~page.isLoading
    /\ PageStep([page EXCEPT !.appState = "input", !.history = <<>>,
                             !.result = NullResult, !.userInput = <<>>,
                             !.seenComplete = FALSE])

backToHearing ==
    /\ page.appState = "result" /\ ~page.isLoading
    /\ PageStep([page EXCEPT !.appState = "hearing", !.result = NullResult])

NextClient ==
    \/ \E text \in TopicInputs : type_topic(text)
    \/ \E text \in AnswerInputs : type_userInput(text)
    \/ startHearing
    \/ \E outcome \in HearingOutcomes : startHearing_resume(outcome)
    \/ sendResponse
    \/ \E outcome \in HearingOutcomes : sendResponse_resume(outcome)
    \/ generateScript
    \/ \E outcome \in GenerateOutcomes : generateScript_resume(outcome)
    \/ reset
    \/ backToHearing

SpecClient == InitClient /\ [][NextClient]_vars

(***************************************************************************)
(* Properties.                                                             *)
(***************************************************************************)
\* the oracle call the current generate call issued last
LastCall == oracleLog[Len(oracleLog)]

\* generate returned (pc = "done") and its last oracle call was answered
Returned ==
    pc = "done" /\ Len(oracleLog) > 0 /\ Has(LastCall, "response")

\* total length of a candidate: the lengths of the fields it has, added up
TotalLength(script) ==
    LET len(f) == IF Has(script, f) THEN Length(script[f]) ELSE 0
    IN len("hook") + len("context") + len("body") + len("proof")
       + len("transition") + len("cta")

\* the validation contract, stated on the candidate itself
MeetsContract(script, purpose) ==
    /\ \A f \in RequiredFields : Has(script, f) /\ Trim(script[f]) # <<>>
    /\ \A f \in DOMAIN script : ~EMOJI_REGEX_test(script[f])
    /\ TotalLength(script) >= 250 /\ TotalLength(script) <= 400
    /\ \E k \in 1..3 : Includes(script.cta, CTA_KEYWORDS[purpose][k])

\* the oracle reported a failure: a non-empty error, or no script
ReportsFailure(llmResponse) ==
    \/ ~Has(llmResponse, "script")
    \/ Has(llmResponse, "error") /\ llmResponse.error # ""

\* C1: generate returns success=true only with the candidate of its last
\* oracle call, unmodified, and that candidate meets the validation contract
\* for the request's CTA purpose: a failing candidate is never returned.
C1_SuccessIsValidatedCandidate ==
    (pc = "done" /\ result.success) =>
        /\ DOMAIN result = {"success", "script"}
        /\ Returned
        /\ Has(LastCall.response, "script")
        /\ result.script = LastCall.response.script
        /\ MeetsContract(result.script, request.ctaPurpose)

C1_Witness ==
    /\ pc = "done" /\ result.success
    /\ Len(oracleLog) = 3
    /\ result.script = ScriptOptional

\* C2: the oracle is invoked for a request only when the hearing session has
\* reached the completed state (canGenerate() allows generation).
C2_OracleGatedByHearing ==
    Len(oracleLog) > 0 => canGenerate.allowed

\* C3: one generate call invokes the oracle at most 3 times; the attempt
\* counter counts the oracle calls of this call only; call n+1 is issued only
\* after call n returned a candidate that failed validation with the decision
\* retry_with_prompt; no call is pending or issued once generate has returned.
C3_BoundedAttempts ==
    /\ Len(oracleLog) <= 3
    /\ pc \in {"await", "done"} => attempt = Len(oracleLog)
    /\ \A i \in 1..(Len(oracleLog) - 1) :
          /\ Has(oracleLog[i], "response")
          /\ ~ReportsFailure(oracleLog[i].response)
          /\ LET script == oracleLog[i].response.script
                 v == validateScript(script, request.ctaPurpose)
             IN /\ ~v.valid
                /\ determineRetryAction(v.errors, TotalLength(script)).action
                      = "retry_with_prompt"
    /\ Len(oracleLog) > 0 =>
          (Has(LastCall, "response") <=> pc = "done")

C3_Witness ==
    nCalls = 2 /\ pc = "await" /\ Len(oracleLog) = 3 /\ attempt = 3

\* C4: every generate call eventually returns, provided every oracle call
\* eventually returns.
C4_GenerateReturns == (pc = "await") ~> (pc = "done")

C4_Witness ==
    /\ pc = "done" /\ Len(oracleLog) = 3
    /\ DOMAIN result = {"success", "errors"}

\* C5: when the oracle reports a failure on any attempt, generate returns at
\* once with success=false and llmError = the oracle's message (the fixed
\* message when the oracle gave none) and nothing else in the result.
C5_OracleFailureIsHardStop ==
    (Returned /\ ReportsFailure(LastCall.response)) =>
        result = [success |-> FALSE,
                  llmError |-> IF Has(LastCall.response, "error")
                               THEN LastCall.response.error
                               ELSE DefaultLlmError]

C5_Witness ==
    /\ Returned /\ Len(oracleLog) = 2
    /\ LastCall.response = [script |-> ScriptValid, error |-> "E1",
                            rawOutput |-> "raw"]
    /\ Has(result, "llmError")

\* C6: every result generate returns has exactly one of three shapes:
\* success with script only; failure with a non-empty errors list and
\* optionally needsMoreInfo=true; failure with llmError only.
C6_ResultShapes ==
    pc = "done" =>
        \/ DOMAIN result = {"success", "script"} /\ result.success
        \/ /\ DOMAIN result = {"success", "errors"}
           /\ ~result.success /\ Len(result.errors) > 0
        \/ /\ DOMAIN result = {"success", "errors", "needsMoreInfo"}
           /\ ~result.success /\ Len(result.errors) > 0 /\ result.needsMoreInfo
        \/ DOMAIN result = {"success", "llmError"} /\ ~result.success

C6_Witness ==
    pc = "done" /\ Has(result, "errors") /\ Has(result, "needsMoreInfo")
    /\ Len(result.errors) = 1

\* the last oracle call returned a candidate that fails the contract
LastCandidateFails ==
    /\ Returned
    /\ ~ReportsFailure(LastCall.response)
    /\ ~MeetsContract(LastCall.response.script, request.ctaPurpose)

LastErrors == validateScript(LastCall.response.script, request.ctaPurpose).errors
LastLength == TotalLength(LastCall.response.script)

\* C7: when a candidate fails validation with a shortfall or an excess above
\* 50 (decision request_more_info), generate returns at that attempt with
\* success=false, errors = that candidate's violations, needsMoreInfo=true,
\* on the first, second and third attempt alike.
C7_MoreInfoTerminates ==
    (LastCandidateFails /\ (250 - LastLength > 50 \/ LastLength - 400 > 50)) =>
        result = [success |-> FALSE, errors |-> LastErrors, needsMoreInfo |-> TRUE]

C7_Witness ==
    /\ LastCandidateFails /\ Len(oracleLog) = 2
    /\ LastCall.response.script = ScriptShort70
    /\ Has(result, "needsMoreInfo")

\* C8: when the decision is no_retry, or retry_with_prompt after the third
\* attempt, generate returns success=false with the violations of the last
\* candidate only and without needsMoreInfo.
C8_ExhaustedReturnsLastErrors ==
    LastCandidateFails =>
        LET action == determineRetryAction(LastErrors, LastLength).action
        IN (action = "no_retry" \/ (action = "retry_with_prompt" /\ Len(oracleLog) = 3))
           => result = [success |-> FALSE, errors |-> LastErrors]

C8_Witness ==
    /\ LastCandidateFails /\ Len(oracleLog) = 3
    /\ oracleLog[1].response.script = ScriptEmoji
    /\ LastCall.response.script = ScriptNoHook
    /\ result.errors = <<ValidationError("MISSING_HOOK", 0)>>

IsPrefix(a, b) == Len(a) <= Len(b) /\ SubSeq(b, 1, Len(a)) = a
CorrectionSections(p) == Cardinality({i \in 1..Len(p) : p[i] = CorrectionHeader})

\* C9: the prompt of attempt n+1 is the prompt of attempt n with one
\* correction section appended: the first prompt is the composed one, every
\* earlier prompt is a prefix of every later one, and the prompt of attempt
\* k+1 holds k correction sections.
C9_CorrectionsAccumulate ==
    \A i \in 1..Len(oracleLog) :
        /\ i = 1 => oracleLog[i].prompt = buildPrompt(request)
        /\ CorrectionSections(oracleLog[i].prompt) = i - 1
        /\ i > 1 =>
              LET prev == oracleLog[i - 1].prompt
              IN /\ IsPrefix(prev, oracleLog[i].prompt)
                 /\ Len(oracleLog[i].prompt) > Len(prev) + 1
                 /\ oracleLog[i].prompt[Len(prev) + 1] = CorrectionHeader

C9_Witness ==
    /\ Len(oracleLog) = 3
    /\ CorrectionSections(oracleLog[3].prompt) = 2
    /\ Has(request, "history") /\ Len(request.history) > 0

DistinctCodes(errors) == {errors[i].code : i \in 1..Len(errors)}

\* C10: adjustPrompt appends one directive per distinct violated code of the
\* list, for every retryable code, so a retry decided by determineRetryAction
\* is issued with a prompt that differs from the previous one.
C10_OneDirectivePerCode ==
    ret.of = "adjustPrompt" =>
        LET added == SubSeq(ret.value, Len(args.originalPrompt) + 1, Len(ret.value))
            directives == {i \in 1..Len(added) : added[i].k = "directive"}
        IN /\ IsPrefix(args.originalPrompt, ret.value)
           /\ Cardinality(directives) = Cardinality(DistinctCodes(args.errors))
           /\ determineRetryAction(args.errors, args.currentLength).action
                 = "retry_with_prompt" => ret.value # args.originalPrompt

\* the direct call of determineRetryAction returned
DecisionReturned == ret.of = "determineRetryAction"
ArgCodes == DistinctCodes(args.errors)

\* C11: determineRetryAction, given a list with a TOO_SHORT error and the
\* measured length L, returns shortfall = 250 - L (and no excess), with
\* retry_with_prompt when the shortfall is at most 50 (L >= 200) and
\* request_more_info otherwise (L <= 199).
C11_ShortfallDecision ==
    (DecisionReturned /\ "TOO_SHORT" \in ArgCodes) =>
        LET L == args.currentLength
        IN ret.value = [action |-> IF L >= 200 THEN "retry_with_prompt"
                                   ELSE "request_more_info",
                        shortfall |-> 250 - L]

C11_Witness ==
    /\ DecisionReturned
    /\ args.errors = <<ValidationError("TOO_SHORT", 242)>>
    /\ args.currentLength = 242
    /\ ret.value = [action |-> "retry_with_prompt", shortfall |-> 8]

\* C12: determineRetryAction, given a list with a TOO_LONG error and no
\* TOO_SHORT error and the measured length L, returns excess = L - 400 (and
\* no shortfall), with retry_with_prompt when the excess is at most 50
\* (L <= 450) and request_more_info otherwise (L >= 451).
C12_ExcessDecision ==
    (DecisionReturned /\ "TOO_LONG" \in ArgCodes /\ "TOO_SHORT" \notin ArgCodes) =>
        LET L == args.currentLength
        IN ret.value = [action |-> IF L <= 450 THEN "retry_with_prompt"
                                   ELSE "request_more_info",
                        excess |-> L - 400]

C12_Witness ==
    /\ DecisionReturned
    /\ args.errors = <<ValidationError("TOO_LONG", 480)>>
    /\ args.currentLength = 480
    /\ ret.value = [action |-> "request_more_info", excess |-> 80]

\* the codes the third rule of determineRetryAction retries on
OtherRetryableCodes ==
    {"CONTAINS_EMOJI", "CTA_MISMATCH_LONG_VIDEO", "CTA_MISMATCH_LIKE",
     "CTA_MISMATCH_COMMENT", "MISSING_HOOK", "MISSING_BODY", "MISSING_CTA",
     "INVALID_ORDER"}

\* C13: the length rules take priority over the retryable-code rule wherever
\* the errors stand in the list: a list with a TOO_SHORT or TOO_LONG error
\* and an emoji, CTA-mismatch or missing-field error is decided by the
\* length threshold alone, so a shortfall or excess above 50 gives
\* request_more_info although retryable codes are present.
C13_LengthRulesFirst ==
    (/\ DecisionReturned
     /\ ArgCodes \cap {"TOO_SHORT", "TOO_LONG"} # {}
     /\ ArgCodes \cap OtherRetryableCodes # {}) =>
        LET L == args.currentLength
            distance == IF "TOO_SHORT" \in ArgCodes THEN 250 - L ELSE L - 400
        IN /\ ret.value.action =
                 IF distance > 50 THEN "request_more_info" ELSE "retry_with_prompt"
           /\ DOMAIN ret.value # {"action"}

C13_Witness ==
    /\ DecisionReturned
    /\ args.errors = <<ValidationError("CONTAINS_EMOJI", 0),
                       ValidationError("TOO_SHORT", 180)>>
    /\ args.currentLength = 180
    /\ ret.value.action = "request_more_info"

\* C14: determineRetryAction, given a list with no TOO_SHORT and no TOO_LONG
\* error, returns retry_with_prompt with neither shortfall nor excess when a
\* code of the list is retryable (CONTAINS_EMOJI, CTA_MISMATCH_*, MISSING_*,
\* INVALID_ORDER) and no_retry otherwise, the empty list included; it always
\* returns a decision.
C14_RetryableOrNoRetry ==
    DecisionReturned =>
        /\ ret.value.action \in {"retry_with_prompt", "request_more_info", "no_retry"}
        /\ ArgCodes \cap {"TOO_SHORT", "TOO_LONG"} = {} =>
              ret.value = IF ArgCodes \cap OtherRetryableCodes # {}
                          THEN [action |-> "retry_with_prompt"]
                          ELSE [action |-> "no_retry"]

C14_Witness ==
    /\ DecisionReturned
    /\ args.errors = <<ValidationError("INVALID_ORDER", 0)>>
    /\ ret.value = [action |-> "retry_with_prompt"]

ValidationReturned == ret.of = "validateScript"
Codes == DistinctCodes(ret.value.errors)

\* a required field is absent, empty or white space only
FieldMissing(script, f) ==
    ~Has(script, f) \/ \A i \in 1..Len(script[f]) : IsWhiteSpace(script[f][i].c)

MissingCodes(script) ==
    {c \in {"MISSING_HOOK", "MISSING_BODY", "MISSING_CTA"} :
        \/ c = "MISSING_HOOK" /\ FieldMissing(script, "hook")
        \/ c = "MISSING_BODY" /\ FieldMissing(script, "body")
        \/ c = "MISSING_CTA" /\ FieldMissing(script, "cta")}

\* hook+context+body+proof+transition+cta, of the fields the candidate has
Concatenation(script) ==
    LET text(f) == IF Has(script, f) THEN script[f] ELSE <<>>
    IN text("hook") \o text("context") \o text("body") \o text("proof")
       \o text("transition") \o text("cta")

EmojiCodes(script) ==
    IF EMOJI_REGEX_test(Concatenation(script)) THEN {"CONTAINS_EMOJI"} ELSE {}

LengthCodes(script) ==
    IF TotalLength(script) < 250 THEN {"TOO_SHORT"}
    ELSE IF TotalLength(script) > 400 THEN {"TOO_LONG"}
    ELSE {}

CtaCodeOf(purpose) ==
    CASE purpose = "longVideo" -> "CTA_MISMATCH_LONG_VIDEO"
      [] purpose = "like" -> "CTA_MISMATCH_LIKE"
      [] purpose = "comment" -> "CTA_MISMATCH_COMMENT"

AllCtaCodes ==
    {"CTA_MISMATCH_LONG_VIDEO", "CTA_MISMATCH_LIKE", "CTA_MISMATCH_COMMENT"}

\* the cta field holds one of the three keywords of the purpose
CtaHasKeyword(script, purpose) ==
    /\ Has(script, "cta")
    /\ \E k \in 1..3 : Includes(script.cta, CTA_KEYWORDS[purpose][k])

CtaCodes(script, purpose) ==
    IF CtaHasKeyword(script, purpose) THEN {} ELSE {CtaCodeOf(purpose)}

\* C16: validateScript never stops at the first failure: the codes it
\* returns are exactly the union of the failures of the structure, emoji,
\* length and CTA checks, each decided on the candidate alone, and valid is
\* true exactly when there is no error.
C16_AllChecksAccumulate ==
    ValidationReturned =>
        /\ Codes = MissingCodes(args.script) \cup EmojiCodes(args.script)
                     \cup LengthCodes(args.script)
                     \cup CtaCodes(args.script, args.ctaPurpose)
        /\ ret.value.valid <=> Codes = {}
        /\ ret.value.valid <=> ret.value.errors = <<>>

C16_Witness ==
    /\ ValidationReturned
    /\ ~ret.value.valid
    /\ Codes = {"MISSING_HOOK", "MISSING_BODY", "CONTAINS_EMOJI", "TOO_SHORT",
                "CTA_MISMATCH_COMMENT"}

\* C17: the length check flips exactly at the edges: TOO_SHORT is reported
\* iff the total length is below 250 (249 yes, 250 no) and TOO_LONG iff it is
\* above 400 (400 no, 401 yes), and never both.
C17_LengthEdges ==
    ValidationReturned =>
        LET total == TotalLength(args.script)
        IN /\ "TOO_SHORT" \in Codes <=> total < 250
           /\ "TOO_LONG" \in Codes <=> total > 400
           /\ ~("TOO_SHORT" \in Codes /\ "TOO_LONG" \in Codes)
           /\ total \in {250, 400} => Codes \cap {"TOO_SHORT", "TOO_LONG"} = {}
           /\ total = 249 => "TOO_SHORT" \in Codes
           /\ total = 401 => "TOO_LONG" \in Codes

C17_Witness ==
    /\ ValidationReturned
    /\ TotalLength(args.script) = 250
    /\ Has(args.script, "context") /\ Has(args.script, "proof")
    /\ ret.value.valid

\* C18: the CTA check looks at the cta field alone: the mismatch code of the
\* given purpose, and of no other purpose, is reported iff cta holds none of
\* the three keywords of that purpose; a keyword in hook, body or an
\* optional field, or a keyword of another purpose in cta, does not count.
C18_CtaFieldAlone ==
    ValidationReturned =>
        Codes \cap AllCtaCodes = CtaCodes(args.script, args.ctaPurpose)

C18_Witness ==
    /\ ValidationReturned
    /\ args.ctaPurpose = "like"
    /\ Has(args.script, "hook") /\ Includes(args.script.hook, <<"i", "i", "ne">>)
    /\ Has(args.script, "cta") /\ Includes(args.script.cta, <<"kan", "sou">>)
    /\ Codes \cap AllCtaCodes = {"CTA_MISMATCH_LIKE"}

\* C19: the structure check reports MISSING_HOOK, MISSING_BODY and
\* MISSING_CTA independently, exactly for the required fields that are
\* absent, empty or white space only; the optional fields context, proof and
\* transition, present or not, never give a structure error.
C19_StructureCodes ==
    ValidationReturned =>
        /\ Codes \cap {"MISSING_HOOK", "MISSING_BODY", "MISSING_CTA"}
              = MissingCodes(args.script)
        /\ "INVALID_ORDER" \notin Codes

C19_Witness ==
    /\ ValidationReturned
    /\ Has(args.script, "hook") /\ args.script.hook = Run("sp", 2)
    /\ ~Has(args.script, "body")
    /\ Has(args.script, "context") /\ ~Has(args.script, "proof")
    /\ Codes \cap {"MISSING_HOOK", "MISSING_BODY", "MISSING_CTA"}
          = {"MISSING_HOOK", "MISSING_BODY"}

\* C20: the emoji check over the concatenation of the fields reports
\* CONTAINS_EMOJI iff at least one present field, taken by itself, holds a
\* matched code point, and it reports the error once however many fields or
\* code points match.
C20_EmojiIffSomeField ==
    ValidationReturned =>
        /\ "CONTAINS_EMOJI" \in Codes <=>
              \E f \in DOMAIN args.script : EMOJI_REGEX_test(args.script[f])
        /\ Cardinality({i \in 1..Len(ret.value.errors) :
                           ret.value.errors[i].code = "CONTAINS_EMOJI"}) <= 1

\* the operation a recorded call names
CalledOp(a) == IF "op" \in DOMAIN a THEN a.op ELSE "none"

\* the turns of the session's transcript, in order
SessionTranscript == Deref(history, heap)

\* what the holder of the returned context reads from it
ContextView ==
    [topic |-> ret.value.topic,
     history |-> Deref(ret.value.history, heap),
     ctaPurpose |-> ret.value.ctaPurpose]

Rank(s) ==
    CASE s = "not_started" -> 0
      [] s = "in_progress" -> 1
      [] s = "completed" -> 2

\* C22: the HearingSession state is forward-only: no call of start,
\* complete, addMessage, setTopic or setCtaPurpose moves it backward in the
\* order not_started < in_progress < completed, and once it is completed no
\* operation changes it.
C22_StateForwardOnly == [][Rank(state') >= Rank(state)]_vars

\* C23: no operation takes the session from not_started directly to
\* completed: completed is entered from in_progress only, so canGenerate()
\* allows generation only after start() and then complete().
C23_CompletedOnlyAfterStart ==
    [][(state' = "completed" /\ state # "completed") => state = "in_progress"]_vars

CanGenerateTable(s) ==
    CASE s = "not_started" -> [allowed |-> FALSE, reason |-> "HEARING_NOT_STARTED"]
      [] s = "in_progress" -> [allowed |-> FALSE, reason |-> "HEARING_NOT_COMPLETED"]
      [] s = "completed" -> [allowed |-> TRUE]

\* C24: canGenerate() depends on the state alone: not_started gives
\* {allowed: false, reason: HEARING_NOT_STARTED}, in_progress gives
\* {allowed: false, reason: HEARING_NOT_COMPLETED}, completed gives
\* {allowed: true} without a reason; setting the topic or adding messages
\* never changes its answer, and calling it changes nothing of the session.
C24_CanGenerateByState ==
    [][/\ canGenerate = CanGenerateTable(state)
       /\ canGenerate' = CanGenerateTable(state')
       /\ (CalledOp(args') = "canGenerate" /\ <<args, ret>>' # <<args, ret>>) =>
             /\ ret' = [of |-> "canGenerate", value |-> CanGenerateTable(state)]
             /\ UNCHANGED sessionVars
       /\ (topic' # topic \/ history' # history) => canGenerate' = canGenerate]_vars

C24_Witness ==
    /\ CalledOp(args) = "canGenerate"
    /\ state = "in_progress"
    /\ topic = "morning routines"
    /\ Len(history) = 2
    /\ ret = [of |-> "canGenerate",
              value |-> [allowed |-> FALSE, reason |-> "HEARING_NOT_COMPLETED"]]

\* C25: addMessage is accepted in every state; it appends the turn at the
\* end of the transcript, keeps the earlier turns and their order, whatever
\* the roles, and leaves state, topic and CTA purpose unchanged; start() and
\* complete() leave the transcript unchanged.
C25_AddMessageAppends ==
    [][/\ Len(heap) < MaxObjects =>
             \A message \in HearingMessages : ENABLED addMessage(message)
       /\ history' # history =>
             /\ CalledOp(args') = "addMessage"
             /\ SubSeq(history', 1, Len(history)) = history
             /\ SessionTranscript' = Append(SessionTranscript, args'.message)
             /\ UNCHANGED <<state, topic, ctaPurpose>>
       /\ state' # state =>
             history' = history /\ SessionTranscript' = SessionTranscript]_vars

C25_Witness ==
    /\ CalledOp(args) = "addMessage"
    /\ args.state = "completed"
    /\ args.message = [role |-> "assistant", content |-> Chars(<<"a">>)]
    /\ SessionTranscript = << [role |-> "assistant", content |-> Chars(<<"q">>)],
                              [role |-> "assistant", content |-> Chars(<<"a">>)] >>

\* C26: getContextForGeneration fails in the states not_started and
\* in_progress and leaves state, topic and transcript unchanged; in the
\* state completed it returns the topic, the whole transcript in insertion
\* order and the CTA purpose as last set on the session.
C26_ContextOnlyWhenCompleted ==
    [][(/\ CalledOp(args') = "getContextForGeneration"
        /\ <<args, ret>>' # <<args, ret>>) =>
          /\ UNCHANGED sessionVars
          /\ ret'.of = "getContextForGeneration"
          /\ IF state \in {"not_started", "in_progress"}
             THEN DOMAIN ret' = {"of", "thrown"}
             ELSE /\ DOMAIN ret' = {"of", "value"}
                  /\ ret'.value.topic = topic
                  /\ Deref(ret'.value.history, heap') = SessionTranscript
                  /\ ret'.value.ctaPurpose = ctaPurpose]_vars

C26_Witness ==
    /\ CalledOp(args) = "getContextForGeneration"
    /\ HoldsContext
    /\ state = "completed"
    /\ ContextView = [topic |-> "morning routines",
                      history |-> << [role |-> "assistant", content |-> Chars(<<"q">>)],
                                     [role |-> "user", content |-> Chars(<<"a">>)] >>,
                      ctaPurpose |-> "comment"]

\* C27: the HearingContext returned by getContextForGeneration is a snapshot
\* with a deep copy of the transcript: later addMessage, setTopic and
\* setCtaPurpose calls do not change the returned context, and changes made
\* through the returned context (a turn appended to its history, the content
\* of one of its turns edited) do not change the session's transcript.
C27_ContextIsDeepCopy ==
    [][/\ (/\ HoldsContext
           /\ CalledOp(args') \in {"addMessage", "setTopic", "setCtaPurpose"}) =>
             ContextView' = ContextView
       /\ CalledOp(args') \in {"context_push", "context_edit"} =>
             SessionTranscript' = SessionTranscript]_vars

\* C21: the length the validator measured and the length generate passes to
\* the retry planner are the same number, the sum of the lengths of the
\* fields the candidate has (an omitted optional field adds 0, nothing is
\* added between fields); hence a reported TOO_SHORT (TOO_LONG) comes with a
\* shortfall (excess) of at least 1.
C21_SameMeasuredLength ==
    (ret.of = "generate_decide" /\ Has(ret, "currentLength")) =>
        LET errors == ret.validationResult.errors
            lengthErrors == {i \in 1..Len(errors) :
                                errors[i].code \in {"TOO_SHORT", "TOO_LONG"}}
        IN /\ ret.currentLength = TotalLength(args.script)
           /\ \A i \in lengthErrors : errors[i].count = ret.currentLength
           /\ \A i \in lengthErrors :
                 IF errors[i].code = "TOO_SHORT"
                 THEN /\ Has(ret.retryDecision, "shortfall")
                      /\ ret.retryDecision.shortfall >= 1
                      /\ ret.retryDecision.shortfall = 250 - ret.currentLength
                 ELSE /\ Has(ret.retryDecision, "excess")
                      /\ ret.retryDecision.excess >= 1
                      /\ ret.retryDecision.excess = ret.currentLength - 400

C21_Witness ==
    /\ ret.of = "generate_decide" /\ Has(ret, "currentLength")
    /\ DOMAIN args.script = {"hook", "context", "body", "proof", "cta"}
    /\ args.script.context # <<>>
    /\ ret.currentLength = 401
    /\ ret.retryDecision = [action |-> "retry_with_prompt", excess |-> 1]

\* the request carries a transcript of at least one turn
HasTranscript(req) == Has(req, "history") /\ req.history # <<>>

\* C28: generate composes the first prompt with the dialogue-aware composer
\* exactly when the request carries a non-empty transcript and with the
\* plain composer when the transcript is absent or empty; the empty-transcript
\* failure of the dialogue-aware composer is never raised inside generate,
\* and the composer is chosen once per call: every later prompt is the first
\* one with corrections appended.
C28_ComposerByTranscript ==
    Len(oracleLog) > 0 =>
        LET first == oracleLog[1].prompt
        IN /\ first[1] = IF HasTranscript(request)
                         THEN Lit("hearing: role") ELSE Lit("plain: role, task")
           /\ HasTranscript(request) <=> \E i \in 1..Len(first) : first[i].k = "Q"
           /\ \A i \in 1..Len(first) : first[i].k # "throw"
           /\ \A i \in 1..Len(oracleLog) :
                 /\ IsPrefix(first, oracleLog[i].prompt)
                 /\ \A j \in (Len(first) + 1)..Len(oracleLog[i].prompt) :
                       oracleLog[i].prompt[j].k \in {"lit", "directive"}

C28_Witness ==
    /\ Len(oracleLog) = 2
    /\ Has(request, "history") /\ request.history = <<>>
    /\ oracleLog[1].prompt[1] = Lit("plain: role, task")
    /\ Len(oracleLog[2].prompt) > Len(oracleLog[1].prompt)

\* the direct call of HearingPromptBuilder.build returned or threw
BuildCalled == ret.of = "HearingPromptBuilder_build"

\* C29: HearingPromptBuilder.build fails with an error for an empty
\* transcript and returns a prompt for every transcript of at least one
\* turn, whatever the roles and the number of the turns.
C29_BuildThrowsOnlyWhenEmpty ==
    BuildCalled =>
        IF args.context.history = <<>>
        THEN DOMAIN ret = {"of", "thrown"}
        ELSE /\ DOMAIN ret = {"of", "value"}
             /\ \E i \in 1..Len(ret.value) :
                   ret.value[i] = Seg("topic", args.context.topic, 0)
             /\ \E i \in 1..Len(ret.value) :
                   ret.value[i] = Seg("ctaInstruction", args.context.ctaPurpose, 0)

C29_Witness ==
    /\ BuildCalled
    /\ args.context.history = <<[role |-> "user", content |-> Chars(<<"a">>)]>>
    /\ Has(ret, "value")

\* the Q and A lines of a prompt, in order
QaBlock(p) == SelectSeq(p, LAMBDA seg : seg.k \in {"Q", "A"})

\* C30: the dialogue-aware composer formats a transcript of n turns into
\* floor(n/2) Q/A pairs, pair k made of the turns 2k (as Q) and 2k+1 (as A),
\* counted from 0, in transcript order and whatever the roles; for odd n the
\* last turn is left out, so a transcript of one turn gives no pair at all.
\* (The content of a line is the content of its turn; the last line of the
\* block has lost the white space at its end.)
C30_PairsByPosition ==
    (BuildCalled /\ Has(ret, "value")) =>
        LET h == args.context.history
            block == QaBlock(ret.value)
        IN /\ Len(block) = 2 * (Len(h) \div 2)
           /\ \A i \in 1..Len(block) :
                 block[i] = Line(IF i % 2 = 1 THEN "Q" ELSE "A",
                                 IF i = Len(block) THEN TrimEnd(h[i].content)
                                 ELSE h[i].content)

C30_Witness ==
    /\ BuildCalled /\ Has(ret, "value")
    /\ Len(args.context.history) = 3
    /\ args.context.history[1].role = "user"
    /\ QaBlock(ret.value) = <<Line("Q", Chars(<<"a">>)), Line("A", Chars(<<"q">>))>>

\* the prompt p contains the text: some line of its hearing block does (the
\* fixed text of the templates has none of the code units of a turn)
ContainsText(p, text) ==
    \E i \in 1..Len(p) :
        p[i].k \in {"Q", "A"} /\ Includes(p[i].t, Expand(text))

ContainsTopic(p, t) == \E i \in 1..Len(p) : p[i] = Seg("topic", t, 0)

\* C31 as stated: for every non-empty transcript the prompt returned by
\* HearingPromptBuilder.build contains the topic and the content of every
\* user answer of the transcript.
C31_EveryAnswerInPrompt ==
    (BuildCalled /\ Has(ret, "value")) =>
        LET h == args.context.history
        IN /\ ContainsTopic(ret.value, args.context.topic)
           /\ \A i \in 1..Len(h) :
                 h[i].role = "user" => ContainsText(ret.value, h[i].content)

\* C31, amended: the prompt contains the topic and the content of every user
\* answer that stands in a whole pair (every turn but the last one of a
\* transcript of odd length), the answer of the last pair without the white
\* space at its end.
C31_PairedAnswersInPrompt ==
    (BuildCalled /\ Has(ret, "value")) =>
        LET h == args.context.history
            last == 2 * (Len(h) \div 2)
        IN /\ ContainsTopic(ret.value, args.context.topic)
           /\ \A i \in 1..last :
                 h[i].role = "user" =>
                     ContainsText(ret.value,
                                  IF i = last THEN TrimEnd(h[i].content)
                                  ELSE h[i].content)

C31_Witness ==
    /\ BuildCalled /\ Has(ret, "value")
    /\ Len(args.context.history) = 4
    /\ \A i \in 1..4 :
          args.context.history[i].role = IF i % 2 = 1 THEN "assistant" ELSE "user"
    /\ args.context.history[2].content = Chars(<<"a", "sp">>)
    /\ args.context.history[4].content = Chars(<<"a">>)
    /\ Len(QaBlock(ret.value)) = 4

\* generateNextQuestion returned
QuestionReturned == ret.of = "generateNextQuestion" /\ Has(ret, "value")

\* the oracle reports an error: an error is set on it, or its generateScript
\* throws
OracleReportsError(llm) ==
    \/ Has(llm, "rejects")
    \/ Has(llm, "error") /\ llm.error # ""

\* C32: generateNextQuestion returns {type: error, error} whenever the
\* oracle reports an error (a returned error or a thrown exception), for
\* every topic and transcript and whatever else is configured on the oracle;
\* it returns no question and no completion then.
C32_OracleErrorIsReturned ==
    (QuestionReturned /\ OracleReportsError(args.llm)) =>
        /\ ret.value.type = "error"
        /\ DOMAIN ret.value = {"type", "error"}

\* C33: without a custom response and without an oracle error,
\* generateNextQuestion returns a question: the topic acknowledgement for the
\* empty transcript, otherwise the fixed question number (assistant turns of
\* the transcript) mod 3, so that the questions repeat with period 3.
C33_FallbackQuestion ==
    (/\ QuestionReturned
     /\ ~Has(args.llm, "customResponse")
     /\ ~OracleReportsError(args.llm)) =>
        LET h == args.history
            asked == Cardinality({i \in 1..Len(h) : h[i].role = "assistant"})
        IN /\ DOMAIN ret.value = {"type", "content"}
           /\ ret.value.type = "question"
           /\ ret.value.content =
                 IF h = <<>>
                 THEN Seg("acknowledge topic, ask the audience", args.topic, 0)
                 ELSE CASE asked % 3 = 0 -> Lit("which message?")
                        [] asked % 3 = 1 -> Lit("which action of the viewer?")
                        [] asked % 3 = 2 -> Lit("which episode or numbers?")

C33_Witness ==
    /\ QuestionReturned
    /\ ~Has(args.llm, "customResponse")
    /\ Has(args.llm, "error") /\ args.llm.error = ""
    /\ Len(args.history) = 4
    /\ Cardinality({i \in 1..4 : args.history[i].role = "assistant"}) = 3
    /\ ret.value = [type |-> "question", content |-> Lit("which message?")]

\* some oracle call of the current generate call failed by throwing
OracleThrew == \E i \in 1..Len(oracleLog) : Has(oracleLog[i], "thrown")

\* C34: when an oracle call fails by throwing instead of returning an error
\* result, generate still resolves, to a GenerationResult with success =
\* false: the exception does not reach the caller of generate.
C34_GenerateCatchesThrow ==
    OracleThrew => (pc = "done" /\ result.success = FALSE)

\* the codes of the failures of a candidate, each decided on the candidate
ContractCodes(script, purpose) ==
    MissingCodes(script) \cup EmojiCodes(script) \cup LengthCodes(script)
    \cup CtaCodes(script, purpose)

\* the directives a correction section must hold for a candidate
DirectivesFor(script, purpose) ==
    {Seg("directive", c,
         CASE c = "TOO_SHORT" -> 250 - TotalLength(script)
           [] c = "TOO_LONG" -> TotalLength(script) - 400
           [] OTHER -> 0) : c \in ContractCodes(script, purpose)}

\* the segments of a sequence that are directives
DirectivesIn(segs) ==
    {segs[i] : i \in {j \in 1..Len(segs) : segs[j].k = "directive"}}

\* C35: generate calls that interleave at their oracle awaits do not
\* interfere: each call counts its own attempts and issues at most 3 oracle
\* calls, its first prompt is the one composed for its own request, and each
\* later prompt is its own previous prompt with one correction section whose
\* directives are those of the candidate its own previous oracle call
\* returned.
C35_CallsDoNotInterfere ==
    \A id \in 1..Len(frames) :
        LET f == frames[id]
            log == f.oracleLog
        IN /\ Len(log) <= 3
           /\ f.pc \in {"await", "done"} => f.attempt = Len(log)
           /\ \A i \in 1..Len(log) :
                 IF i = 1
                 THEN /\ ContainsTopic(log[1].prompt, f.request.topic)
                      /\ \E j \in 1..Len(log[1].prompt) :
                            log[1].prompt[j]
                                = Seg("ctaInstruction", f.request.ctaPurpose, 0)
                      /\ HasTranscript(f.request)
                            <=> log[1].prompt[1] = Lit("hearing: role")
                 ELSE LET prev == log[i - 1].prompt
                          added == SubSeq(log[i].prompt, Len(prev) + 1,
                                          Len(log[i].prompt))
                      IN /\ IsPrefix(prev, log[i].prompt)
                         /\ Len(added) > 1
                         /\ added[1] = CorrectionHeader
                         /\ DirectivesIn(added)
                               = DirectivesFor(log[i - 1].response.script,
                                               f.request.ctaPurpose)

C35_Witness ==
    /\ Len(frames) >= 2
    /\ frames[1].pc = "await" /\ frames[2].pc = "await"
    /\ frames[1].request.ctaPurpose = "like"
    /\ frames[2].request.ctaPurpose = "comment"
    /\ Len(frames[1].oracleLog) = 2 /\ Len(frames[2].oracleLog) = 3
    /\ frames[1].oracleLog[1].response.script = ScriptShort20
    /\ frames[2].oracleLog[1].response.script = ScriptValid
    /\ frames[2].oracleLog[2].response.script = ScriptShort20

\* C36: generate always returns from inside the attempt loop: whatever the
\* oracle answers, the result is never the one after the loop (success =
\* false with the 'retry limit reached' llmError); a third failed attempt
\* with a retry decision returns the validation errors.
C36_PostLoopResultUnreachable ==
    /\ Has(result, "llmError") => result.llmError # "retry limit reached"
    /\ (/\ pc = "done" /\ Len(oracleLog) = 3
        /\ ~ReportsFailure(LastCall.response)
        /\ ~MeetsContract(LastCall.response.script, request.ctaPurpose))
           => (Has(result, "errors") /\ result.errors # <<>>)

C36_Witness ==
    /\ pc = "done" /\ attempt = 3
    /\ \A i \in 1..3 :
          /\ Has(oracleLog[i].response, "script")
          /\ oracleLog[i].response.script = ScriptShort20
    /\ DOMAIN result = {"success", "errors"}
    /\ Len(result.errors) = 2

\* the correction section of the oracle call i > 1 of the current generate
\* call: what its prompt has after the prompt of the call before it
CorrectionOf(i) ==
    SubSeq(oracleLog[i].prompt, Len(oracleLog[i - 1].prompt) + 1,
           Len(oracleLog[i].prompt))

\* the directives on the length in a correction section
LengthDirectives(segs) ==
    {d \in DirectivesIn(segs) : d.s \in {"TOO_SHORT", "TOO_LONG"}}

\* C37: when generate retries after a length violation, the number in the
\* appended directive is 250 - L (too short) or L - 400 (too long) for the
\* length L of the candidate the same call received just before, and it lies
\* in 1..50; the same correction section carries the directive of the CTA
\* purpose when that candidate had no keyword of the purpose in its cta.
C37_InterpolatedNumbers ==
    \A i \in 2..Len(oracleLog) :
        LET script == oracleLog[i - 1].response.script
            L == TotalLength(script)
            section == CorrectionOf(i)
        IN /\ LengthDirectives(section) =
                 IF L < 250 THEN {Seg("directive", "TOO_SHORT", 250 - L)}
                 ELSE IF L > 400 THEN {Seg("directive", "TOO_LONG", L - 400)}
                 ELSE {}
           /\ \A d \in LengthDirectives(section) : d.n \in 1..50
           /\ ~CtaHasKeyword(script, request.ctaPurpose) =>
                 Seg("directive", CtaCodeOf(request.ctaPurpose), 0)
                     \in DirectivesIn(section)

C37_Witness ==
    /\ Len(oracleLog) = 3
    /\ request.ctaPurpose = "like"
    /\ oracleLog[1].response.script = ScriptShort20
    /\ DirectivesIn(CorrectionOf(2)) =
          {Seg("directive", "TOO_SHORT", 20), Seg("directive", "CTA_MISMATCH_LIKE", 0)}
    /\ oracleLog[2].response.script = ScriptLong50
    /\ DirectivesIn(CorrectionOf(3)) = {Seg("directive", "TOO_LONG", 50)}

\* C38: whenever validateScript reports MISSING_CTA (the cta is absent, empty
\* or white space only) it reports the CTA-mismatch code of the given purpose
\* in the same result, for every purpose: a missing cta yields at least two
\* errors.
C38_MissingCtaImpliesMismatch ==
    ValidationReturned =>
        /\ FieldMissing(args.script, "cta") => "MISSING_CTA" \in Codes
        /\ "MISSING_CTA" \in Codes =>
              /\ CtaCodeOf(args.ctaPurpose) \in Codes
              /\ Len(ret.value.errors) >= 2

C38_Witness ==
    /\ ValidationReturned
    /\ args.ctaPurpose = "comment"
    /\ Has(args.script, "cta") /\ args.script.cta = Run("sp", 10)
    /\ ret.value.errors = << ValidationError("MISSING_CTA", 0),
                             ValidationError("CTA_MISMATCH_COMMENT", 0) >>

\* the page is open
PageOpen == page.appState # "closed"

\* C39: the page sends a generate request only from the states ready and
\* result, and it enters ready only when a hearing response of type complete
\* arrives; so no generate request is sent unless a complete response was
\* received since the last reset.
C39_GenerateOnlyAfterComplete ==
    /\ [](PageOpen =>
            /\ page.pending.kind = "generate" =>
                  (page.pending.from \in {"ready", "result"} /\ page.seenComplete)
            /\ page.appState \in {"ready", "generating", "result"} =>
                  page.seenComplete)
    /\ [][(PageOpen /\ page'.appState = "ready" /\ page.appState # "ready") =>
             \E outcome \in HearingOutcomes :
                 /\ Has(outcome, "data") /\ outcome.data.type = "complete"
                 /\ sendResponse_resume(outcome)]_vars

C39_Witness ==
    /\ PageOpen
    /\ page.pending.kind = "generate"
    /\ page.pending.from = "result"
    /\ page.appState = "generating"
    /\ Len(page.pending.body.history) = 3

\* a transcript alternates from assistant
Alternates(h) ==
    \A i \in 1..Len(h) : h[i].role = IF i % 2 = 1 THEN "assistant" ELSE "user"

\* C40: the transcript held by the page, and the transcript sent with every
\* hearing and generate request, always alternates roles starting with
\* assistant, whatever the user answers and the hearing responses are, and
\* after the return to the hearing from a result.
C40_TranscriptAlternates ==
    PageOpen =>
        /\ Alternates(page.history)
        /\ page.pending.kind # "none" => Alternates(page.pending.body.history)

====
